---- MODULE Spec2Model ----
(***************************************************************************)
(* Rockbuster: the simulation core of Game.js and the entities and systems *)
(* it drives (Ship, Asteroid, Bullet, Ufo, UfoLaser, PowerUp, Collision,   *)
(* Physics, Spawner), as a state machine.                                  *)
(*                                                                         *)
(* Units.  Time is counted in 1/600 s, the coarsest unit in which the      *)
(* fixed slice (1/120 s) and every configured duration are whole numbers.  *)
(* Lengths are pixels.  Speed multipliers are counted in tenths.  Angles   *)
(* are counted in units of pi/12 (CONFIG.WEAPON.SPREAD_RAD).               *)
(*                                                                         *)
(* Geometry.  The ship, the bullets, the enemy craft, its lasers and the   *)
(* power-ups move under real-valued trigonometry, friction and unseeded    *)
(* random draws, so in the game specification whether two circles overlap  *)
(* in a tick is an input of that tick.  The geometric functions themselves *)
(* (wrap, circleHit, the craft's own edge wrap) are modelled exactly and   *)
(* exercised on real coordinates by SpecWrap.                              *)
(***************************************************************************)
EXTENDS Integers, Sequences, FiniteSets, TLC

VARIABLES
    state,                  \* Game.state, the run state object
    highScore,              \* Game.highScore
    lastPersistedHighScore, \* Game._lastPersistedHighScore
    loadPending,            \* the promise of _loadHighScoreAsync is unresolved
    emitted,                \* events dispatched and saves issued by the last step
    damage,                 \* history: the damageShip calls of the last step
    best0,                  \* history: Game.highScore when the current run began
    peak,                   \* history: the largest score reached in the current run
    loaded,                 \* history: the number the load resolved to, or NULL
    idle,                   \* history: ticks of this wave in which no bullet destroyed a hazard
    left,                   \* history: hazards left at the progression check of the last
                            \* step, NULL when the step did not reach it
    probe                   \* subject of the pure-function specifications

vars == <<state, highScore, lastPersistedHighScore, loadPending, emitted, damage, best0, peak, loaded, idle, left, probe>>

(***************************************************************************)
(* Bounds of the exploration.                                              *)
(***************************************************************************)
\* update(dt) is called by the checker with TickScale fixed slices at once.
TickScale == 100
\* Wave progression is explored up to this wave index.
MaxWave == 1
\* At most this many bullets meet a hazard, and this many the craft, per tick.
MaxHitsPerTick == 1
\* What a bullet or the ship meets first is one of the first HitWindow live
\* hazards (lasers) of the collection.
HitWindow == 1
\* At most this many power-up rolls succeed per wave.
MaxRolls == 1
\* At most this many lasers leave the margin in one tick.
MaxExits == 1
\* At most this many ticks of a wave pass without a bullet destroying a hazard
\* (the busy player of Spec).
MaxIdle == 1
\* At most this many such ticks in the runs of the players who let the ship be hit.
MaxQuiet == 12
\* The players who score little stop aiming at hazards from this score on.
ScoreCap == 40
\* No run scores more than this.
ScoreMax == 1000000
\* The player who waits for the craft lets this many ticks of the last wave pass.
MaxWait == 38
\* A body is followed through this many ticks.
MaxSteps == 2
\* The fixed ticks of a run of the ship on its own, enough for three volleys.
MaxTicks == 46
\* Ticks of a run that is started, restarted and left: enough for the craft
\* to arrive and shoot.
MaxStay == 38

\* The frame callbacks of a behaviour of the loop.
MaxFrames == 4

\* The calls of saveHighScore of a behaviour of the store.
MaxSaves == 1

\* The bullets in flight when the bullet collisions are resolved on real
\* coordinates.
MaxVolley == 3
\* Power-ups are picked up only while the score is below this.
MaxBonus == 5000

(***************************************************************************)
(* CONFIG (src/src/config.js).                                             *)
(***************************************************************************)
W == 960
H == 540
FixedDt == 5
MaxFrameDt == 60
SHIP_RADIUS == 14
FIRE_COOLDOWN == 108
RESPAWN_INVULN == 1800
LIVES == 3
MAX_LIVES == 5
SHIELD_MAX_LEVEL == 2
SHIELD_HIT_INVULN == 600
SPEED_MAX_LEVEL == 5
SPREAD_RAD == 1
BULLET_LIFETIME == 720
BULLET_RADIUS == 2
SIZES == <<42, 28, 18>>
SPLIT_COUNT == 2
SPEED_GROWTH_PER_WAVE == 1
UFO_RADIUS == 22
UFO_SPEED == 180
HITS_TO_DESTROY == 3
UFO_SCORE_VALUE == 750
FIRE_INTERVAL == 900
LASER_LIFETIME == 1500
UFO_OFFSCREEN_MARGIN == 36
SPAWN_TIMER_START == 18000
SPAWN_TIMER_DECREMENT_PER_WAVE == 720
SPAWN_TIMER_MIN == 3600
START_COUNT == 4
GROWTH == 1
SCORE_SMALL == 100
SCORE_MED == 50
SCORE_LARGE == 20
POWERUP_OFFSCREEN_MARGIN == 40
PowerupTypes == <<"tripleShot", "extraLife", "shield", "speed">>
DuplicateScore == [tripleShot |-> 5000, extraLife |-> 2000, shield |-> 4000, speed |-> 2500]

\* The slice handed to update() in the game specification.
Dt == FixedDt * TickScale

Max(a, b) == IF a >= b THEN a ELSE b
Min(a, b) == IF a <= b THEN a ELSE b

\* null, for the fields that hold a number or null
NULL == -1

(***************************************************************************)
(* utils/math.js and systems/Physics.js, systems/Collision.js              *)
(***************************************************************************)
\* Coordinates are double-precision numbers: they are spaced more finely
\* near zero than near W and H.  A position is counted in steps of 1/Grain
\* of the spacing the numbers have at W and H, which the pixel stands for.
Grain == 4
Px(n) == n * Grain

\* A sum that lands near W or H, rounded as the addition rounds it: to the
\* nearest number of that spacing, a tie to the even one.
fl(s) ==
    IF 2 * (s % Grain) < Grain THEN Px(s \div Grain)
    ELSE IF 2 * (s % Grain) > Grain THEN Px(s \div Grain + 1)
    ELSE IF (s \div Grain) % 2 = 0 THEN Px(s \div Grain) ELSE Px(s \div Grain + 1)

\* v - max is exact for the v the wrap meets: max <= v <= 2 * max.
wrapUpperOnly(v, max) == IF v >= max THEN v - max ELSE v
wrap(v, max) == IF v < 0 THEN fl(v + max) ELSE IF v >= max THEN v - max ELSE v

integrateAndWrap(e) == [e EXCEPT !.x = wrap(e.x, Px(W)), !.y = wrap(e.y, Px(H))]

circleHitInside(a, b) ==
    LET dx == a.x - b.x
        dy == a.y - b.y
        rr == Px(a.r + b.r) * Px(a.r + b.r)
    IN  dx * dx + dy * dy < rr

circleHit(a, b) ==
    LET dx == a.x - b.x
        dy == a.y - b.y
        rr == Px(a.r + b.r) * Px(a.r + b.r)
    IN  dx * dx + dy * dy <= rr

(***************************************************************************)
(* entities/Asteroid.js.  The velocity draws (randSign() * speed *         *)
(* Math.random()) are sampled at 0, a value Math.random() can return.      *)
(***************************************************************************)
Colors == {"brown", "grey"}

Asteroid(x, y, sizeIndex, colorVariant, speedMultiplier) ==
    [x |-> x, y |-> y, r |-> SIZES[sizeIndex + 1], vx |-> 0, vy |-> 0, dead |-> FALSE,
     sizeIndex |-> sizeIndex, colorVariant |-> colorVariant,
     speedMultiplier |-> speedMultiplier]

splitKeepsTier(a) ==
    IF a.sizeIndex + 1 >= Len(SIZES) THEN <<>>
    ELSE [i \in 1..SPLIT_COUNT |->
            Asteroid(a.x, a.y, a.sizeIndex, a.colorVariant, a.speedMultiplier)]
splitDefaultSpeed(a) ==
    IF a.sizeIndex + 1 >= Len(SIZES) THEN <<>>
    ELSE [i \in 1..SPLIT_COUNT |->
            Asteroid(a.x, a.y, a.sizeIndex + 1, a.colorVariant, 10)]

splitOneMore(a) ==
    IF a.sizeIndex + 1 >= Len(SIZES) THEN <<>>
    ELSE [i \in 1..(SPLIT_COUNT + 1) |->
            Asteroid(a.x, a.y, a.sizeIndex + 1, a.colorVariant, a.speedMultiplier)]

split(a) ==
    IF a.sizeIndex + 1 >= Len(SIZES) THEN <<>>
    ELSE [i \in 1..SPLIT_COUNT |->
            Asteroid(a.x, a.y, a.sizeIndex + 1, a.colorVariant, a.speedMultiplier)]

\* x += vx * dt, y += vy * dt (the spin is presentation only)
AsteroidUpdate(a, dt) ==
    [a EXCEPT !.x = @ + Px((a.vx * dt) \div 600), !.y = @ + Px((a.vy * dt) \div 600)]

(***************************************************************************)
(* entities/Ship.js.  Rotation, thrust, friction and position are real-    *)
(* valued and enter the game specification only through the overlap        *)
(* inputs; the blink flags are presentation only.  Of the position the     *)
(* ship keeps whether it is still where the constructor put it, the centre *)
(* of the play area (every caller passes W / 2, H / 2) and at rest (Entity  *)
(* sets vx = vy = 0), or a tick with the thrust key down has moved it away.*)
(***************************************************************************)
Ship(invulnBlink) ==
    [angle |-> -6, cooldown |-> 0,
     invuln |-> IF invulnBlink THEN RESPAWN_INVULN ELSE 0,
     weaponMode |-> "single", speedLevel |-> 0, shieldLevel |-> 0, pos |-> "centre"]

\* thrust: isDown('ArrowUp') or isDown('KeyW')
ShipUpdate(s, dt, thrust) ==
    [s EXCEPT !.cooldown = Max(0, @ - dt), !.invuln = Max(0, @ - dt),
              !.pos = IF thrust THEN "away" ELSE @]

canFire(s) == s.cooldown <= 0

Bullet(angle) == [angle |-> angle, lifetime |-> BULLET_LIFETIME, dead |-> FALSE]

\* the bullets of one volley
fire(s) ==
    IF s.weaponMode = "five" THEN
        << Bullet(s.angle - SPREAD_RAD * 2), Bullet(s.angle - SPREAD_RAD), Bullet(s.angle),
           Bullet(s.angle + SPREAD_RAD), Bullet(s.angle + SPREAD_RAD * 2) >>
    ELSE IF s.weaponMode = "triple" THEN
        << Bullet(s.angle - SPREAD_RAD), Bullet(s.angle), Bullet(s.angle + SPREAD_RAD) >>
    ELSE << Bullet(s.angle) >>

didFireNoCooldown(s) == s
didFire(s) == [s EXCEPT !.cooldown = FIRE_COOLDOWN]

increaseSpeedLevelUncapped(s) == [s EXCEPT !.speedLevel = @ + 1]

increaseSpeedLevel(s) ==
    IF s.speedLevel >= SPEED_MAX_LEVEL THEN s ELSE [s EXCEPT !.speedLevel = @ + 1]

increaseShieldLevel(s) ==
    IF s.shieldLevel >= SHIELD_MAX_LEVEL THEN s
    ELSE [s EXCEPT !.shieldLevel = Min(SHIELD_MAX_LEVEL, @ + 1)]

decreaseShieldLevelKeeps(s) == s
decreaseShieldLevel(s) ==
    IF s.shieldLevel <= 0 THEN s ELSE [s EXCEPT !.shieldLevel = Max(0, @ - 1)]

(***************************************************************************)
(* entities/Bullet.js, entities/Ufo.js, entities/UfoLaser.js               *)
(***************************************************************************)
BulletUpdate(b, dt) ==
    [b EXCEPT !.lifetime = @ - dt, !.dead = (b.dead \/ b.lifetime - dt <= 0)]

Ufo == [health |-> HITS_TO_DESTROY, fireCooldown |-> FIRE_INTERVAL, dead |-> FALSE]

UfoLaser == [lifetime |-> LASER_LIFETIME, dead |-> FALSE]

\* the craft's cooldown after update(dt), and whether it fired
UfoFires(u, dt) == u.fireCooldown - dt <= 0
UfoUpdate(u, dt) ==
    [u EXCEPT !.fireCooldown = IF UfoFires(u, dt) THEN FIRE_INTERVAL ELSE @ - dt]

takeHitLate(u) ==
    IF u.dead THEN u
    ELSE [u EXCEPT !.health = @ - 1, !.dead = (u.health - 1 < 0)]

takeHit(u) ==
    IF u.dead THEN u
    ELSE [u EXCEPT !.health = @ - 1, !.dead = (u.health - 1 <= 0)]

\* exits: the laser left the margin box around the play area in this update
UfoLaserUpdateTimedOnly(l, dt, exits) ==
    [l EXCEPT !.lifetime = @ - dt, !.dead = (l.dead \/ l.lifetime - dt <= 0)]

UfoLaserUpdate(l, dt, exits) ==
    [l EXCEPT !.lifetime = @ - dt, !.dead = (l.dead \/ l.lifetime - dt <= 0 \/ exits)]

PowerUp(type) == [type |-> type, dead |-> FALSE]

(***************************************************************************)
(* systems/Spawner.js                                                      *)
(***************************************************************************)
\* randomEdgeSpawn with its two draws given: the edge and the coordinate
\* along it, in pixels.
randomEdgeSpawn(edge, u, margin) ==
    IF edge = 0 THEN [x |-> Px(-margin), y |-> Px(u)]
    ELSE IF edge = 1 THEN [x |-> Px(W + margin), y |-> Px(u)]
    ELSE IF edge = 2 THEN [x |-> Px(u), y |-> Px(-margin)]
    ELSE [x |-> Px(u), y |-> Px(H + margin)]

\* The sampled position draws of a wave: hazard i takes edge (i - 1) % 4 and
\* the middle of that edge.
EdgeDraw(i) ==
    randomEdgeSpawn((i - 1) % 4, IF (i - 1) % 4 < 2 THEN H \div 2 ELSE W \div 2,
                    POWERUP_OFFSCREEN_MARGIN)

\* The sampled colour draws of a wave of n hazards: the first k are grey, for
\* the k of greys.
ColorDraws(n, greys) == { [i \in 1..n |-> IF i <= k THEN "grey" ELSE "brown"] : k \in greys }

\* The sampled outcomes of the per-type power-up rolls of a wave.
RollDraws == { r \in SUBSET {"tripleShot", "extraLife", "shield", "speed"} :
                 Cardinality(r) <= MaxRolls }

WaveCount(wave) == START_COUNT + wave * GROWTH

\* What the bullets score for destroying every hazard of waves a..b.
RECURSIVE TierScore(_)
TierScore(t) ==
    IF t >= Len(SIZES) THEN 0
    ELSE (IF t = 2 THEN SCORE_SMALL ELSE IF t = 1 THEN SCORE_MED ELSE SCORE_LARGE)
         + SPLIT_COUNT * TierScore(t + 1)
RECURSIVE WaveScore(_, _)
WaveScore(a, b) == IF a > b THEN 0 ELSE WaveCount(a) * TierScore(0) + WaveScore(a + 1, b)
SpeedMultiplier(wave) == 10 + wave * SPEED_GROWTH_PER_WAVE

spawnWaveOneLess(S, colors) ==
    [S EXCEPT !.asteroids = @ \o
        [i \in 1..(WaveCount(S.wave) - 1) |->
            Asteroid(EdgeDraw(i).x, EdgeDraw(i).y, 0, colors[i], SpeedMultiplier(S.wave))]]
spawnWave(S, colors) ==
    [S EXCEPT !.asteroids = @ \o
        [i \in 1..WaveCount(S.wave) |->
            Asteroid(EdgeDraw(i).x, EdgeDraw(i).y, 0, colors[i], SpeedMultiplier(S.wave))]]

RECURSIVE RolledPowerups(_, _)
RolledPowerups(i, rolls) ==
    IF i > Len(PowerupTypes) THEN <<>>
    ELSE (IF PowerupTypes[i] \in rolls THEN <<PowerUp(PowerupTypes[i])>> ELSE <<>>)
         \o RolledPowerups(i + 1, rolls)

maybeSpawnPowerUp(S, rolls) == [S EXCEPT !.powerups = @ \o RolledPowerups(1, rolls)]

(***************************************************************************)
(* core/Game.js: construction, run control, high score                     *)
(***************************************************************************)
createInitialState(hs) ==
    [mode |-> "MENU", wave |-> 0, score |-> 0, lives |-> LIVES,
     highScore |-> hs, didBeatHighScore |-> FALSE,
     ship |-> Ship(FALSE), bullets |-> <<>>, asteroids |-> <<>>, powerups |-> <<>>,
     ufo |-> <<>>, ufoBullets |-> <<>>, ufoSpawnTimer |-> NULL,
     ufoSpawnedThisWave |-> FALSE]

getUfoSpawnDelayForWave(wave) ==
    Max(SPAWN_TIMER_MIN, SPAWN_TIMER_START - wave * SPAWN_TIMER_DECREMENT_PER_WAVE)

resetUfoTimerForWave(S) ==
    [S EXCEPT !.ufoSpawnedThisWave = FALSE,
              !.ufoSpawnTimer = getUfoSpawnDelayForWave(S.wave)]

resetUfoStateForWave(S) ==
    [S EXCEPT !.ufo = <<>>, !.ufoBullets = <<>>, !.ufoSpawnedThisWave = FALSE,
              !.ufoSpawnTimer = getUfoSpawnDelayForWave(S.wave)]

spawnUfoRearmed(S) ==
    [S EXCEPT !.ufo = <<Ufo>>, !.ufoSpawnTimer = getUfoSpawnDelayForWave(S.wave)]

spawnUfoForCurrentWave(S) ==
    [S EXCEPT !.ufo = <<Ufo>>, !.ufoSpawnedThisWave = TRUE, !.ufoSpawnTimer = NULL]

\* What a step dispatches on the canvas or hands to saveHighScore.
Event(type, score, wave, hs, new) ==
    [type |-> type, score |-> score, wave |-> wave, highScore |-> hs, newHighScore |-> new]

\* The Game while a handler runs: its state object, its own two fields and
\* what it has emitted so far.
Game == [S |-> state, highScore |-> highScore,
         lastPersisted |-> lastPersistedHighScore, out |-> <<>>, hits |-> <<>>]

updateHighScoreNever(G, score) == G
updateHighScore(G, score) ==
    IF score <= G.highScore THEN G
    ELSE [G EXCEPT !.highScore = score,
                   !.S.highScore = score,
                   !.S.didBeatHighScore = TRUE,
                   !.lastPersisted = IF score > @ THEN score ELSE @,
                   !.out = IF score > G.lastPersisted
                           THEN Append(@, Event("save", score, 0, 0, FALSE)) ELSE @]

startGameUnguarded(G, colors, rolls) ==
    LET S1 == [G.S EXCEPT !.mode = "PLAY", !.wave = 0, !.score = 0, !.lives = LIVES,
                          !.highScore = G.highScore, !.didBeatHighScore = FALSE,
                          !.ship = Ship(FALSE), !.bullets = <<>>, !.asteroids = <<>>]
        S2 == resetUfoStateForWave(maybeSpawnPowerUp(spawnWave(S1, colors), rolls))
    IN  [G EXCEPT !.S = S2, !.out = Append(@, Event("game-started", 0, 0, 0, FALSE))]

startGame(G, colors, rolls) ==
    IF G.S.mode # "MENU" THEN G
    ELSE LET S1 == [G.S EXCEPT !.mode = "PLAY", !.wave = 0, !.score = 0, !.lives = LIVES,
                               !.highScore = G.highScore, !.didBeatHighScore = FALSE,
                               !.ship = Ship(FALSE), !.bullets = <<>>, !.asteroids = <<>>]
             S2 == resetUfoStateForWave(maybeSpawnPowerUp(spawnWave(S1, colors), rolls))
         IN  [G EXCEPT !.S = S2, !.out = Append(@, Event("game-started", 0, 0, 0, FALSE))]

resetKeepsScore(G, colors, rolls) ==
    [G EXCEPT !.S = [startGame([G EXCEPT !.S = createInitialState(G.highScore)],
                               colors, rolls).S EXCEPT !.score = G.S.score],
              !.out = Append(@, Event("game-started", 0, 0, 0, FALSE))]
reset(G, colors, rolls) ==
    LET S1 == [createInitialState(G.highScore) EXCEPT !.mode = "PLAY"]
        S2 == resetUfoStateForWave(maybeSpawnPowerUp(spawnWave(S1, colors), rolls))
    IN  [G EXCEPT !.S = S2, !.out = Append(@, Event("game-started", 0, 0, 0, FALSE))]

returnToMenuKeepsRun(G) ==
    [G EXCEPT !.S.mode = "MENU",
              !.out = Append(@, Event("game-returned-to-menu", 0, 0, 0, FALSE))]
returnToMenuForgetsBest(G) ==
    [G EXCEPT !.S = createInitialState(0), !.highScore = 0,
              !.out = Append(@, Event("game-returned-to-menu", 0, 0, 0, FALSE))]
returnToMenuKeepsHazards(G) ==
    [G EXCEPT !.S = [createInitialState(G.highScore) EXCEPT !.asteroids = G.S.asteroids],
              !.out = Append(@, Event("game-returned-to-menu", 0, 0, 0, FALSE))]
returnToMenu(G) ==
    [G EXCEPT !.S = createInitialState(G.highScore),
              !.out = Append(@, Event("game-returned-to-menu", 0, 0, 0, FALSE))]

(***************************************************************************)
(* core/Game.js: update(dt) in PLAY                                        *)
(***************************************************************************)
LiveIdx(seq) == { i \in 1..Len(seq) : ~seq[i].dead }

\* The overlap inputs name a live entity by its rank k among the live ones,
\* counted from the front of the collection; 0 when there is none.
Nth(seq, k) ==
    LET L == LiveIdx(seq)
        c == { i \in L : Cardinality({ j \in L : j < i }) = k - 1 }
    IN  IF k = 0 \/ c = {} THEN 0 ELSE CHOOSE i \in c : TRUE

Ranks == 1..HitWindow

ScoreFor(idx) == IF idx = 2 THEN SCORE_SMALL ELSE IF idx = 1 THEN SCORE_MED ELSE SCORE_LARGE

Alive(seq) == SelectSeq(seq, LAMBDA e : ~e.dead)

\* update() up to the collision handlers, one stage for each statement:
\* Ship.update, the volley (fireKey: isDown('Space') or pressed('KeyJ')), the
\* per-entity updates, the craft's timer and update, the lasers (exits: the
\* lasers that leave the margin box in this tick) and the wrap.
updateShip(S, dt, thrust) == [S EXCEPT !.ship = ShipUpdate(@, dt, thrust)]

fireVolley(S, fireKey) ==
    IF fireKey /\ canFire(S.ship)
    THEN [S EXCEPT !.ship = didFire(@), !.bullets = @ \o fire(S.ship)]
    ELSE S

updateEntities(S, dt) ==
    [S EXCEPT !.bullets = [i \in 1..Len(@) |-> BulletUpdate(@[i], dt)],
              !.asteroids = [i \in 1..Len(@) |-> AsteroidUpdate(@[i], dt)]]

ufoTimerExpiry(S) == IF S.ufoSpawnTimer <= 0 THEN spawnUfoForCurrentWave(S) ELSE S

ufoTimer(S, dt) ==
    IF S.ufo = <<>> /\ ~S.ufoSpawnedThisWave /\ S.ufoSpawnTimer # NULL
    THEN ufoTimerExpiry([S EXCEPT !.ufoSpawnTimer = Max(0, @ - dt)])
    ELSE S

updateUfo(S, dt) ==
    IF S.ufo = <<>> THEN S
    ELSE [S EXCEPT !.ufo = <<UfoUpdate(@[1], dt)>>,
                   !.ufoBullets = IF UfoFires(S.ufo[1], dt) THEN Append(@, UfoLaser) ELSE @]

updateLasers(S, dt, exits) ==
    [S EXCEPT !.ufoBullets = [i \in 1..Len(@) |-> UfoLaserUpdate(@[i], dt, i \in exits)]]

wrapAsteroids(S) ==
    [S EXCEPT !.asteroids = [i \in 1..Len(@) |-> integrateAndWrap(@[i])]]

Advance(G, dt, fireKey, thrust, exits) ==
    [G EXCEPT !.S = wrapAsteroids(updateLasers(updateUfo(ufoTimer(
                        updateEntities(fireVolley(updateShip(@, dt, thrust), fireKey), dt),
                        dt), dt), dt, exits))]

\* this.updateHighScore(S.score), and S.score += n before it.
reportScore(G) == updateHighScore(G, G.S.score)
addScore(G, n) == reportScore([G EXCEPT !.S.score = @ + n])

\* forEachBulletAsteroidHit with the onHit callback of _handleBulletCollisions.
\* bh[i] is the rank of the first live hazard bullet i overlaps, 0 for none.
markHit(G, bi, ai) ==
    [G EXCEPT !.S.bullets[bi].dead = TRUE, !.S.asteroids[ai].dead = TRUE]

onBulletHitAssigns(G, bi, ai) ==
    [reportScore([markHit(G, bi, ai) EXCEPT !.S.score = ScoreFor(G.S.asteroids[ai].sizeIndex)])
       EXCEPT !.S.asteroids = @ \o split(G.S.asteroids[ai])]
onBulletHit(G, bi, ai) ==
    [addScore(markHit(G, bi, ai), ScoreFor(G.S.asteroids[ai].sizeIndex))
       EXCEPT !.S.asteroids = @ \o split(G.S.asteroids[ai])]

RECURSIVE forEachBulletAsteroidHit(_, _, _)
forEachBulletAsteroidHit(G, bh, i) ==
    IF i > Len(G.S.bullets) THEN G
    ELSE IF G.S.bullets[i].dead \/ Nth(G.S.asteroids, bh[i]) = 0
         THEN forEachBulletAsteroidHit(G, bh, i + 1)
         ELSE forEachBulletAsteroidHit(onBulletHit(G, i, Nth(G.S.asteroids, bh[i])), bh, i + 1)

\* The second loop of _handleBulletCollisions: bu is the set of bullets that
\* overlap the craft.
ufoDestroyed(G) ==
    IF G.S.ufo[1].dead
    THEN [addScore(G, UFO_SCORE_VALUE) EXCEPT !.S.ufo = <<>>]
    ELSE G

onBulletHitUfo(G, i) ==
    ufoDestroyed([G EXCEPT !.S.bullets[i].dead = TRUE, !.S.ufo = <<takeHit(@[1])>>])

RECURSIVE bulletUfoLoop(_, _, _)
bulletUfoLoop(G, bu, i) ==
    IF i > Len(G.S.bullets) THEN G
    ELSE IF G.S.bullets[i].dead \/ G.S.ufo = <<>> \/ i \notin bu
         THEN bulletUfoLoop(G, bu, i + 1)
         ELSE bulletUfoLoop(onBulletHitUfo(G, i), bu, i + 1)

handleBulletCollisions(G, bh, bu) == bulletUfoLoop(forEachBulletAsteroidHit(G, bh, 1), bu, 1)

\* The live hazards of a collection that equal a, and those that are what
\* a.split() returns.
Copies(seq, a) == Cardinality({ j \in LiveIdx(seq) : seq[j] = a })
Children(seq, a) ==
    IF split(a) = <<>> THEN 0
    ELSE Cardinality({ j \in LiveIdx(seq) : seq[j] = split(a)[1] })

\* The log entry of one call of damageShip: the ship before and after, and
\* the hazard the ship overlapped (<<>>: the craft or a laser), and the state
\* object as the call left it.
Hit(G0, G1, by, absorb) ==
    [by |-> by, shield0 |-> G0.S.ship.shieldLevel, lives0 |-> G0.S.lives,
     shield1 |-> G1.S.ship.shieldLevel, lives1 |-> G1.S.lives, mode1 |-> G1.S.mode,
     invuln0 |-> G0.S.ship.invuln, invuln1 |-> G1.S.ship.invuln, after |-> G1.S,
     hazard |-> IF absorb = 0 THEN <<>> ELSE <<G0.S.asteroids[absorb]>>,
     copies0 |-> IF absorb = 0 THEN 0 ELSE Copies(G0.S.asteroids, G0.S.asteroids[absorb]),
     children0 |-> IF absorb = 0 THEN 0 ELSE Children(G0.S.asteroids, G0.S.asteroids[absorb])]

\* if (S.lives <= 0)
livesExhaustedEarly(lives) == lives <= 1
livesExhausted(lives) == lives <= 0

\* damageShip of update().  absorb is the index of the hazard onShieldAbsorb
\* flags dead (0: no callback was passed).  The result carries the Game and
\* the value damageShip returns.
onShieldAbsorbSpares(G, absorb) == G

onShieldAbsorb(G, absorb) ==
    IF absorb = 0 THEN G ELSE [G EXCEPT !.S.asteroids[absorb].dead = TRUE]

shieldBonus(G, scoreBonus) == IF scoreBonus # 0 THEN addScore(G, scoreBonus) ELSE G

shieldDownNoGrace(G) == [G EXCEPT !.S.ship = decreaseShieldLevel(@)]

shieldDown(G) ==
    [G EXCEPT !.S.ship = [decreaseShieldLevel(@) EXCEPT !.invuln = SHIELD_HIT_INVULN]]

gameOver(G) ==
    [G EXCEPT !.out = Append(@, Event("game-over", G.S.score, G.S.wave, G.highScore,
                                      G.S.didBeatHighScore))]

lifeLostEndsTick(G) ==
    IF livesExhausted(G.S.lives)
    THEN [G |-> gameOver(reportScore([G EXCEPT !.S.mode = "GAME_OVER"])),
          survived |-> FALSE]
    ELSE [G |-> [G EXCEPT !.S.ship = Ship(TRUE)], survived |-> FALSE]

lifeLost(G) ==
    IF livesExhausted(G.S.lives)
    THEN [G |-> gameOver(reportScore([G EXCEPT !.S.mode = "GAME_OVER"])),
          survived |-> FALSE]
    ELSE [G |-> [G EXCEPT !.S.ship = Ship(TRUE)], survived |-> TRUE]

damageShipBody(G, absorb, scoreBonus) ==
    IF G.S.ship.shieldLevel > 0
    THEN [G |-> shieldDown(shieldBonus(onShieldAbsorb(G, absorb), scoreBonus)),
          survived |-> TRUE]
    ELSE lifeLost([G EXCEPT !.S.lives = @ - 1])

logHit(G, R, by, absorb) == [R EXCEPT !.G.hits = Append(@, Hit(G, R.G, by, absorb))]

damageShip(G, absorb, scoreBonus, by) ==
    logHit(G, damageShipBody(G, absorb, scoreBonus), by, absorb)

\* _handleShipHazardCollisions.  sa: rank of the first live hazard the ship
\* overlaps; su: the ship overlaps the craft; sl: rank of the first live
\* laser the ship overlaps.  A stage takes what the stage before it returned.
\* if (!survived || S.mode === 'GAME_OVER')
runOver(R) == ~R.survived \/ R.G.S.mode = "GAME_OVER"

hitByHazard(G, ai) ==
    IF ai # 0
    THEN damageShip(G, ai, ScoreFor(G.S.asteroids[ai].sizeIndex), "hazard")
    ELSE [G |-> G, survived |-> TRUE]

hitByUfo(R, su) ==
    IF R.G.S.ufo # <<>> /\ su THEN damageShip(R.G, 0, 0, "ufo") ELSE R

hitByLaser(R, li) ==
    IF li # 0
    THEN damageShip([R.G EXCEPT !.S.ufoBullets[li].dead = TRUE], 0, 0, "laser")
    ELSE R

shipReport(R) == IF runOver(R) THEN [R EXCEPT !.survived = FALSE] ELSE R

afterUfo(R, sl) ==
    IF runOver(R) THEN [R EXCEPT !.survived = FALSE]
    ELSE IF R.G.S.ship.invuln > 0 THEN R
    ELSE shipReport(hitByLaser(R, Nth(R.G.S.ufoBullets, sl)))

afterHazards(R, su, sl) ==
    IF runOver(R) THEN [R EXCEPT !.survived = FALSE]
    ELSE IF R.G.S.ship.invuln > 0 THEN R
    ELSE afterUfo(hitByUfo(R, su), sl)

handleShipHazardCollisions(G, sa, su, sl) ==
    afterHazards(hitByHazard(G, Nth(G.S.asteroids, sa)), su, sl)

applyPowerupNoLifeBonus(G, type) ==
    IF type = "tripleShot" THEN
        IF G.S.ship.weaponMode = "five" THEN addScore(G, DuplicateScore[type])
        ELSE IF G.S.ship.weaponMode = "triple"
             THEN [G EXCEPT !.S.ship.weaponMode = "five"]
             ELSE [G EXCEPT !.S.ship.weaponMode = "triple"]
    ELSE IF type = "extraLife" THEN
        [G EXCEPT !.S.lives = Min(MAX_LIVES, @ + 1)]
    ELSE IF type = "shield" THEN
        IF G.S.ship.shieldLevel < SHIELD_MAX_LEVEL
        THEN [G EXCEPT !.S.ship = increaseShieldLevel(@)]
        ELSE addScore(G, DuplicateScore[type])
    ELSE
        IF increaseSpeedLevel(G.S.ship) # G.S.ship
        THEN [G EXCEPT !.S.ship = increaseSpeedLevel(@)]
        ELSE addScore(G, DuplicateScore[type])

\* One iteration of _handlePowerupCollisions, for a power-up the ship overlaps.
applyPowerup(G, type) ==
    IF type = "tripleShot" THEN
        IF G.S.ship.weaponMode = "five" THEN addScore(G, DuplicateScore[type])
        ELSE IF G.S.ship.weaponMode = "triple"
             THEN [G EXCEPT !.S.ship.weaponMode = "five"]
             ELSE [G EXCEPT !.S.ship.weaponMode = "triple"]
    ELSE IF type = "extraLife" THEN
        IF G.S.lives < MAX_LIVES
        THEN [G EXCEPT !.S.lives = Min(MAX_LIVES, @ + 1)]
        ELSE addScore(G, DuplicateScore[type])
    ELSE IF type = "shield" THEN
        IF G.S.ship.shieldLevel < SHIELD_MAX_LEVEL
           /\ increaseShieldLevel(G.S.ship) # G.S.ship
        THEN [G EXCEPT !.S.ship = increaseShieldLevel(@)]
        ELSE addScore(G, DuplicateScore[type])
    ELSE
        IF increaseSpeedLevel(G.S.ship) # G.S.ship
        THEN [G EXCEPT !.S.ship = increaseSpeedLevel(@)]
        ELSE addScore(G, DuplicateScore[type])

pickUp(G, i) == applyPowerup([G EXCEPT !.S.powerups[i].dead = TRUE], G.S.powerups[i].type)

RECURSIVE handlePowerupCollisions(_, _, _)
handlePowerupCollisions(G, sp, i) ==
    IF i > Len(G.S.powerups) THEN G
    ELSE IF ~G.S.powerups[i].dead /\ i \in sp
         THEN handlePowerupCollisions(pickUp(G, i), sp, i + 1)
         ELSE handlePowerupCollisions(G, sp, i + 1)

\* The cleanup filters of update().
cleanup(S) ==
    [S EXCEPT !.bullets = Alive(@), !.asteroids = Alive(@),
              !.powerups = Alive(@), !.ufoBullets = Alive(@)]

\* The progression block of update(): whether it runs, and what it does.
waveClearedNever(S) == FALSE
waveClearedEarly(S) == Len(S.asteroids) <= 1 /\ S.mode = "PLAY"
waveCleared(S) == Len(S.asteroids) = 0 /\ S.mode = "PLAY"

nextWave(S, colors, rolls) ==
    resetUfoStateForWave(
        maybeSpawnPowerUp(spawnWave([S EXCEPT !.wave = @ + 1], colors), rolls))

(***************************************************************************)
(* The inputs of a PLAY tick, pruned to the entities they can concern.  A  *)
(* profile P says what the environment of a specification may do:          *)
(*   hits     bullets that meet a hazard, per tick, at most                *)
(*   ufoHits  bullets that meet the craft, per tick, at most               *)
(*   ship     the waves in which the ship may overlap hazards, the craft   *)
(*            and lasers                                                   *)
(*   pick     the ship may overlap power-ups                               *)
(*   rolls    the outcomes of the power-up rolls of a wave                 *)
(*   greys    the lengths of the grey prefix of a wave's colour draws      *)
(*   fire     the states of the fire key                                   *)
(*   thrust   the states of the thrust key                                 *)
(*   maxIdle  ticks without a bullet destroying a hazard, for each wave    *)
(*            the runs may reach                                           *)
(*   scoreCap bullets meet hazards only while the score is below it        *)
(***************************************************************************)
RanksFor(seq) == { k \in Ranks : Nth(seq, k) # 0 }

\* The first j live entities of a collection, for every j up to n.
Firsts(seq, n) == { { Nth(seq, k) : k \in 1..j } \ {0} : j \in 0..n }

BulletHazardChoices(S, n) ==
    UNION { { [i \in 1..Len(S.bullets) |-> IF i \in HB THEN f[i] ELSE 0] :
                f \in [HB -> RanksFor(S.asteroids)] } :
            HB \in Firsts(S.bullets, n) }

BulletUfoChoices(S, n) ==
    IF S.ufo = <<>> THEN {{}} ELSE Firsts(S.bullets, n)

ExitChoices(S) == Firsts(S.ufoBullets, MaxExits)

\* The values the stored high score is sampled from; NULL: no valid record.
StoredDraws == {NULL, 30}

(***************************************************************************)
(* Steps                                                                   *)
(***************************************************************************)
\* The fields a handler leaves behind.
Commit(G) ==
    /\ state' = G.S
    /\ highScore' = G.highScore
    /\ lastPersistedHighScore' = G.lastPersisted
    /\ emitted' = G.out
    /\ damage' = G.hits

\* A run begins: the history variables start over.
RunBegins == best0' = highScore /\ peak' = 0 /\ idle' = 0 /\ left' = NULL
RunGoesOn(G) == best0' = best0 /\ peak' = Max(peak, G.S.score)

\* update() in MENU: Enter or Space pressed starts the run.
TickMenu(P) ==
    /\ state.mode = "MENU"
    /\ \E pressedEnter \in BOOLEAN, pressedSpace \in BOOLEAN :
         IF pressedEnter \/ pressedSpace
         THEN \E colors \in ColorDraws(WaveCount(0), P.greys), rolls \in P.rolls :
                 Commit(startGame(Game, colors, rolls)) /\ RunBegins
         ELSE Commit(Game) /\ UNCHANGED <<best0, peak, idle>> /\ left' = NULL
    /\ UNCHANGED <<loadPending, loaded, probe>>

\* update() in GAME_OVER: Enter pressed restarts.
TickGameOver(P) ==
    /\ state.mode = "GAME_OVER"
    /\ \E pressedEnter \in BOOLEAN :
         IF pressedEnter
         THEN \E colors \in ColorDraws(WaveCount(0), P.greys), rolls \in P.rolls :
                 Commit(reset(Game, colors, rolls)) /\ RunBegins
         ELSE Commit(Game) /\ UNCHANGED <<best0, peak, idle>> /\ left' = NULL
    /\ UNCHANGED <<loadPending, loaded, probe>>

shipCollisionsUngated(G, sa, su, sl) == handleShipHazardCollisions(G, sa, su, sl)

\* update() in PLAY, from the collision handlers on.
shipCollisions(G, sa, su, sl) ==
    IF G.S.ship.invuln <= 0
    THEN handleShipHazardCollisions(G, sa, su, sl)
    ELSE [G |-> G, survived |-> TRUE]

tidy(G) == [G EXCEPT !.S = cleanup(@)]

powerupsAndCleanupAlways(R, sp) == tidy(reportScore(handlePowerupCollisions(R.G, sp, 1)))

powerupsAndCleanup(R, sp) ==
    IF runOver(R) THEN R.G
    ELSE tidy(reportScore(handlePowerupCollisions(R.G, sp, 1)))

Resolve(G1, bh, bu, sa, su, sl, sp) ==
    powerupsAndCleanup(shipCollisions(handleBulletCollisions(G1, bh, bu), sa, su, sl), sp)

\* The tick's result is committed, after the progression block when the wave
\* is cleared.  quiet: no bullet met a hazard in this tick.
Land(G) == Commit(G) /\ RunGoesOn(G)

Progress(P, G, quiet) ==
    /\ quiet => idle < P.maxIdle[state.wave + 1]
    /\ ~quiet => state.score < P.scoreCap
    /\ left' = IF G.S.mode = "GAME_OVER" THEN NULL ELSE Len(G.S.asteroids)
    /\ IF waveCleared(G.S)
       THEN /\ G.S.wave + 1 < Len(P.maxIdle)
            /\ \E colors \in ColorDraws(WaveCount(G.S.wave + 1), P.greys),
                  rolls \in P.rolls :
                 Land([G EXCEPT !.S = nextWave(@, colors, rolls)])
            /\ idle' = 0
       ELSE /\ Land(G)
            /\ idle' = IF quiet THEN idle + 1 ELSE idle

\* The ship may overlap something in this tick.
Open(P, G) == state.wave \in P.ship /\ G.S.ship.invuln <= 0

Collide(P, G) ==
    \E bh \in BulletHazardChoices(G.S, P.hits),
       bu \in BulletUfoChoices(G.S, P.ufoHits),
       sa \in IF Open(P, G) THEN {0} \cup RanksFor(G.S.asteroids) ELSE {0},
       su \in IF Open(P, G) /\ G.S.ufo # <<>> THEN BOOLEAN ELSE {FALSE},
       sl \in IF Open(P, G) THEN {0} \cup RanksFor(G.S.ufoBullets) ELSE {0},
       sp \in IF P.pick THEN SUBSET LiveIdx(G.S.powerups) ELSE {{}} :
      Progress(P, Resolve(G, bh, bu, sa, su, sl, sp), \A i \in 1..Len(bh) : bh[i] = 0)

TickPlay(P) ==
    /\ state.mode = "PLAY"
    /\ \E fireKey \in P.fire, thrust \in P.thrust, exits \in ExitChoices(state) :
         Collide(P, Advance(Game, Dt, fireKey, thrust, exits))
    /\ UNCHANGED <<loadPending, loaded, probe>>

\* The menu overlay's start button: startGame() whatever the mode.
StartButton(P) ==
    /\ \E colors \in ColorDraws(WaveCount(0), P.greys), rolls \in P.rolls :
         Commit(startGame(Game, colors, rolls))
    /\ IF state.mode = "MENU" THEN RunBegins ELSE UNCHANGED <<best0, peak, idle>> /\ left' = NULL
    /\ UNCHANGED <<loadPending, loaded, probe>>

\* The restart command of a run in progress or over: reset().
Restart(P) ==
    /\ state.mode # "MENU"
    /\ \E colors \in ColorDraws(WaveCount(0), P.greys), rolls \in P.rolls :
         Commit(reset(Game, colors, rolls))
    /\ RunBegins
    /\ UNCHANGED <<loadPending, loaded, probe>>

\* The return-to-menu command of a run in progress or over: returnToMenu().
ReturnToMenu ==
    /\ state.mode # "MENU"
    /\ Commit(returnToMenu(Game))
    /\ RunBegins
    /\ UNCHANGED <<loadPending, loaded, probe>>

\* The promise of _loadHighScoreAsync resolves to v.
LoadResolves ==
    /\ loadPending
    /\ \E v \in StoredDraws :
         /\ loaded' = v
         /\ IF v >= 0
            THEN /\ highScore' = v
                 /\ lastPersistedHighScore' = v
                 /\ state' = [state EXCEPT !.highScore = v]
            ELSE UNCHANGED <<highScore, lastPersistedHighScore, state>>
    /\ loadPending' = FALSE
    /\ emitted' = <<>>
    /\ damage' = <<>>
    /\ left' = NULL
    /\ UNCHANGED <<best0, peak, idle, probe>>

\* The state a constructed Game is in: the constructor and _initStateAndShip.
Construction ==
    /\ highScore = 0
    /\ lastPersistedHighScore = 0
    /\ state = createInitialState(0)
    /\ loadPending = TRUE
    /\ loaded = NULL
    /\ emitted = <<>>
    /\ damage = <<>>
    /\ best0 = 0
    /\ peak = 0
    /\ idle = 0
    /\ left = NULL

Init == Construction /\ probe = <<>>

\* One run of a player who keeps destroying hazards and is never hit.
Busy == [hits |-> MaxHitsPerTick, ufoHits |-> MaxHitsPerTick, ship |-> {}, pick |-> TRUE,
         rolls |-> RollDraws, greys |-> {1}, fire |-> BOOLEAN, thrust |-> {TRUE}, maxIdle |-> [w \in 1..(MaxWave + 1) |-> MaxIdle],
         scoreCap |-> ScoreMax]

Next ==
    \/ TickMenu(Busy)
    \/ TickPlay(Busy)
    \/ LoadResolves

Spec == Init /\ [][Next]_vars

\* Runs of a player who scores little and lets the ship be hit.
Clumsy == [hits |-> MaxHitsPerTick, ufoHits |-> 0, ship |-> 0..MaxWave, pick |-> TRUE,
           rolls |-> {{}, {"shield"}, {"extraLife"}}, greys |-> {1}, fire |-> BOOLEAN, thrust |-> {TRUE},
           maxIdle |-> [w \in 1..(MaxWave + 1) |-> MaxQuiet], scoreCap |-> ScoreCap]

NextDamage ==
    \/ TickMenu(Clumsy)
    \/ TickPlay(Clumsy)
    \/ TickGameOver(Clumsy)

SpecDamage == Init /\ [][NextDamage]_vars

\* Every way the mode changes, with a player who scores little.
Casual == [hits |-> MaxHitsPerTick, ufoHits |-> 0, ship |-> 0..MaxWave, pick |-> FALSE,
           rolls |-> {{}}, greys |-> {1}, fire |-> {TRUE}, thrust |-> {TRUE}, maxIdle |-> [w \in 1..(MaxWave + 1) |-> MaxQuiet],
           scoreCap |-> ScoreCap]

NextModes ==
    \/ TickMenu(Casual)
    \/ TickPlay(Casual)
    \/ TickGameOver(Casual)
    \/ StartButton(Casual)
    \/ Restart(Casual)
    \/ ReturnToMenu
    \/ LoadResolves

SpecModes == Init /\ [][NextModes]_vars

\* Every way the mode changes, with a player whose ship is hit and who
\* collects extra lives and shields.
NextStates ==
    \/ TickMenu(Clumsy)
    \/ TickPlay(Clumsy)
    \/ TickGameOver(Clumsy)
    \/ Restart(Clumsy)
    \/ ReturnToMenu
    \/ LoadResolves

SpecStates == Init /\ [][NextStates]_vars

\* One run of a player who clears the waves, collects the shields, and in
\* the last wave waits for the craft instead.
Collector == [hits |-> MaxHitsPerTick, ufoHits |-> MaxHitsPerTick, ship |-> {MaxWave + 1}, pick |-> TRUE,
              rolls |-> {{"shield"}}, greys |-> {1}, fire |-> {TRUE}, thrust |-> {TRUE},
              maxIdle |-> [w \in 1..(MaxWave + 2) |-> IF w <= MaxWave + 1 THEN 0 ELSE MaxWait],
              scoreCap |-> WaveScore(0, MaxWave)]

NextScore ==
    \/ TickMenu(Collector)
    \/ TickPlay(Collector)

SpecScore == Init /\ [][NextScore]_vars

\* Runs that are started, restarted and left for the menu at any moment, by a
\* player who shoots nothing but is still there when the craft arrives.
Wanderer == [hits |-> 0, ufoHits |-> 0, ship |-> {0}, pick |-> FALSE,
             rolls |-> {{}, {"tripleShot", "shield"}}, greys |-> {1}, fire |-> {TRUE},
             thrust |-> BOOLEAN, maxIdle |-> [w \in 1..1 |-> MaxStay], scoreCap |-> 0]

NextRuns ==
    \/ TickMenu(Wanderer)
    \/ TickPlay(Wanderer)
    \/ TickGameOver(Wanderer)
    \/ StartButton(Wanderer)
    \/ Restart(Wanderer)
    \/ ReturnToMenu
    \/ LoadResolves

SpecRuns == Init /\ [][NextRuns]_vars

\* One run of a player who clears the first wave slowly enough to meet the
\* craft, shoots at it, and meets the next wave's craft too.
Hunter == [hits |-> MaxHitsPerTick, ufoHits |-> MaxHitsPerTick, ship |-> {}, pick |-> FALSE,
           rolls |-> {{}}, greys |-> {1}, fire |-> {TRUE}, thrust |-> {TRUE},
           maxIdle |-> [w \in 1..(MaxWave + 1) |-> MaxQuiet], scoreCap |-> ScoreMax]

NextCraft ==
    \/ TickMenu(Hunter)
    \/ TickPlay(Hunter)

SpecCraft == Init /\ [][NextCraft]_vars

\* The same player with a stored best that no run reaches, who may also
\* restart.  Each step of a run notes the craft state it began with.
Before(how) ==
    [op |-> how, wave |-> state.wave, score |-> state.score, ufo |-> state.ufo,
     ufoBullets |-> state.ufoBullets, spawned |-> state.ufoSpawnedThisWave]

WaveTick(P) ==
    /\ state.mode = "PLAY"
    /\ \E fireKey \in P.fire, thrust \in P.thrust, exits \in ExitChoices(state) :
         Collide(P, Advance(Game, Dt, fireKey, thrust, exits))
    /\ probe' = Before("tick")
    /\ UNCHANGED <<loadPending, loaded>>

WaveRestart(P) ==
    /\ state.mode # "MENU"
    /\ \E colors \in ColorDraws(WaveCount(0), P.greys), rolls \in P.rolls :
         Commit(reset(Game, colors, rolls))
    /\ RunBegins
    /\ probe' = Before("restart")
    /\ UNCHANGED <<loadPending, loaded>>

InitWaves ==
    /\ highScore = ScoreMax
    /\ lastPersistedHighScore = ScoreMax
    /\ state = createInitialState(ScoreMax)
    /\ loadPending = FALSE
    /\ loaded = ScoreMax
    /\ emitted = <<>>
    /\ damage = <<>>
    /\ best0 = 0
    /\ peak = 0
    /\ idle = 0
    /\ left = NULL
    /\ probe = <<>>

NextWaves ==
    \/ TickMenu(Hunter)
    \/ WaveTick(Hunter)
    \/ WaveRestart(Hunter)

SpecWaves == InitWaves /\ [][NextWaves]_vars

\* Runs of a player who clears the waves while the ship may be hit, and who
\* may restart at any moment; the stored best is out of the runs' reach.
Bold == [hits |-> MaxHitsPerTick, ufoHits |-> 0, ship |-> 0..MaxWave, pick |-> TRUE,
         rolls |-> {{"shield"}}, greys |-> {1}, fire |-> {TRUE}, thrust |-> {TRUE},
         maxIdle |-> [w \in 1..(MaxWave + 1) |-> MaxIdle], scoreCap |-> ScoreMax]

NextClear ==
    \/ TickMenu(Bold)
    \/ TickPlay(Bold)
    \/ Restart(Bold)

SpecClear == InitWaves /\ [][NextClear]_vars

\* The start command of a Game, from the keyboard in the menu tick and from
\* the menu overlay's button in any mode, at any moment; the probe keeps the
\* command of the last step and the number of game-started events so far.
Starts(log) == Cardinality({ i \in 1..Len(log) : log[i].type = "game-started" })

Delivered(op) == probe' = [op |-> op, started |-> probe.started + Starts(emitted')]

PressStart(P) ==
    /\ state.mode = "MENU"
    /\ \E colors \in ColorDraws(WaveCount(0), P.greys), rolls \in P.rolls :
         Commit(startGame(Game, colors, rolls))
    /\ RunBegins
    /\ UNCHANGED <<loadPending, loaded>>
    /\ Delivered("key")

ClickStart(P) ==
    /\ \E colors \in ColorDraws(WaveCount(0), P.greys), rolls \in P.rolls :
         Commit(startGame(Game, colors, rolls))
    /\ IF state.mode = "MENU" THEN RunBegins ELSE UNCHANGED <<best0, peak, idle>> /\ left' = NULL
    /\ UNCHANGED <<loadPending, loaded>>
    /\ Delivered("button")

StartedTick(P) ==
    /\ state.mode = "PLAY"
    /\ \E fireKey \in P.fire, thrust \in P.thrust, exits \in ExitChoices(state) :
         Collide(P, Advance(Game, Dt, fireKey, thrust, exits))
    /\ UNCHANGED <<loadPending, loaded>>
    /\ Delivered("tick")

InitStart == Construction /\ probe = [op |-> "none", started |-> 0]

NextStart ==
    \/ PressStart(Casual)
    \/ ClickStart(Casual)
    \/ StartedTick(Casual)

SpecStart == InitStart /\ [][NextStart]_vars

\* One run with a tally of the wave in progress: the hazards the collision
\* handlers flagged dead and the score the ticks added since the wave began,
\* and, of the last tick, the score it added and what the hazards it flagged
\* dead are worth.
RECURSIVE DeadWorth(_, _)
DeadWorth(asteroids, i) ==
    IF i > Len(asteroids) THEN 0
    ELSE (IF asteroids[i].dead THEN ScoreFor(asteroids[i].sizeIndex) ELSE 0)
         + DeadWorth(asteroids, i + 1)

Tally(wave, destroyed, points, gain, worth, cleared) ==
    [op |-> "tally", wave |-> wave, destroyed |-> destroyed, points |-> points,
     gain |-> gain, worth |-> worth, cleared |-> cleared]

Carried(field) == IF probe.cleared THEN 0 ELSE field

\* G0: the Game as the tick found it; Gs: after the collision handlers; G1:
\* after the cleanup, before the progression block.
Tallied(G0, Gs, G1) ==
    Tally(G0.S.wave,
          Carried(probe.destroyed) + Cardinality({ i \in 1..Len(Gs.S.asteroids) :
                                                     Gs.S.asteroids[i].dead }),
          Carried(probe.points) + (G1.S.score - G0.S.score),
          G1.S.score - G0.S.score,
          DeadWorth(Gs.S.asteroids, 1),
          waveCleared(G1.S))

TallyCollide(P, G) ==
    \E bh \in BulletHazardChoices(G.S, P.hits),
       bu \in BulletUfoChoices(G.S, P.ufoHits),
       sa \in IF Open(P, G) THEN {0} \cup RanksFor(G.S.asteroids) ELSE {0},
       su \in IF Open(P, G) /\ G.S.ufo # <<>> THEN BOOLEAN ELSE {FALSE},
       sl \in IF Open(P, G) THEN {0} \cup RanksFor(G.S.ufoBullets) ELSE {0},
       sp \in IF P.pick THEN SUBSET LiveIdx(G.S.powerups) ELSE {{}} :
      /\ Progress(P, Resolve(G, bh, bu, sa, su, sl, sp), \A i \in 1..Len(bh) : bh[i] = 0)
      /\ probe' = Tallied(G, shipCollisions(handleBulletCollisions(G, bh, bu), sa, su, sl).G,
                          Resolve(G, bh, bu, sa, su, sl, sp))

TallyTick(P) ==
    /\ state.mode = "PLAY"
    /\ \E fireKey \in P.fire, thrust \in P.thrust, exits \in ExitChoices(state) :
         TallyCollide(P, Advance(Game, Dt, fireKey, thrust, exits))
    /\ UNCHANGED <<loadPending, loaded>>

TallyStart(P) ==
    /\ state.mode = "MENU"
    /\ \E colors \in ColorDraws(WaveCount(0), P.greys), rolls \in P.rolls :
         Commit(startGame(Game, colors, rolls))
    /\ RunBegins
    /\ probe' = Tally(0, 0, 0, 0, 0, FALSE)
    /\ UNCHANGED <<loadPending, loaded>>

InitTally == Construction /\ probe = Tally(0, 0, 0, 0, 0, TRUE)

NextTally ==
    \/ TallyStart(Bold)
    \/ TallyTick(Bold)

SpecTally == InitTally /\ [][NextTally]_vars

\* The lifetime of a Game whose load may resolve at any moment, with the
\* largest score saved or loaded so far noted after each step.
RECURSIVE TopSaved(_, _)
TopSaved(log, i) ==
    IF i > Len(log) THEN 0
    ELSE Max(IF log[i].type = "save" THEN log[i].score ELSE 0, TopSaved(log, i + 1))

Noted == probe' = [op |-> "saves", top |-> Max(probe.top, Max(TopSaved(emitted', 1), loaded'))]

SavesMenuTick(P) ==
    /\ state.mode = "MENU"
    /\ \E colors \in ColorDraws(WaveCount(0), P.greys), rolls \in P.rolls :
         Commit(startGame(Game, colors, rolls))
    /\ RunBegins
    /\ UNCHANGED <<loadPending, loaded>>
    /\ Noted

SavesTick(P) ==
    /\ state.mode = "PLAY"
    /\ \E fireKey \in P.fire, thrust \in P.thrust, exits \in ExitChoices(state) :
         Collide(P, Advance(Game, Dt, fireKey, thrust, exits))
    /\ UNCHANGED <<loadPending, loaded>>
    /\ Noted

SavesRestart(P) ==
    /\ state.mode = "GAME_OVER"
    /\ \E colors \in ColorDraws(WaveCount(0), P.greys), rolls \in P.rolls :
         Commit(reset(Game, colors, rolls))
    /\ RunBegins
    /\ UNCHANGED <<loadPending, loaded>>
    /\ Noted

SavesLoad ==
    /\ loadPending
    /\ \E v \in StoredDraws :
         /\ loaded' = v
         /\ IF v >= 0
            THEN /\ highScore' = v
                 /\ lastPersistedHighScore' = v
                 /\ state' = [state EXCEPT !.highScore = v]
            ELSE UNCHANGED <<highScore, lastPersistedHighScore, state>>
    /\ loadPending' = FALSE
    /\ emitted' = <<>>
    /\ damage' = <<>>
    /\ left' = NULL
    /\ Noted
    /\ UNCHANGED <<best0, peak, idle>>

InitSaves == Construction /\ probe = [op |-> "saves", top |-> 0]

NextSaves ==
    \/ SavesMenuTick(Casual)
    \/ SavesTick(Casual)
    \/ SavesRestart(Casual)
    \/ SavesLoad

SpecSaves == InitSaves /\ [][NextSaves]_vars

\* The ticks of MENU and GAME_OVER with the keys whose edge the tick sees:
\* the two branches of update() that return before the simulation.
IdleKeys == SUBSET {"Enter", "Space"}

Pressed(keys) == [op |-> "keys", pressed |-> keys]

updateMenu(G, keys, colors, rolls) ==
    IF "Enter" \in keys \/ "Space" \in keys THEN startGame(G, colors, rolls) ELSE G

updateGameOverAnyKey(G, keys, colors, rolls) ==
    IF "Enter" \in keys \/ "Space" \in keys THEN reset(G, colors, rolls) ELSE G

updateGameOver(G, keys, colors, rolls) ==
    IF "Enter" \in keys THEN reset(G, colors, rolls) ELSE G

IdleLands ==
    IF state'.mode = "PLAY" THEN RunBegins
    ELSE UNCHANGED <<best0, peak, idle>> /\ left' = NULL

MenuTick(P) ==
    /\ state.mode = "MENU"
    /\ \E keys \in IdleKeys, colors \in ColorDraws(WaveCount(0), P.greys), rolls \in P.rolls :
         Commit(updateMenu(Game, keys, colors, rolls)) /\ probe' = Pressed(keys)
    /\ IdleLands
    /\ UNCHANGED <<loadPending, loaded>>

GameOverTick(P) ==
    /\ state.mode = "GAME_OVER"
    /\ \E keys \in IdleKeys, colors \in ColorDraws(WaveCount(0), P.greys), rolls \in P.rolls :
         Commit(updateGameOver(Game, keys, colors, rolls)) /\ probe' = Pressed(keys)
    /\ IdleLands
    /\ UNCHANGED <<loadPending, loaded>>

InitIdle == Construction /\ probe = Pressed({})

NextIdle ==
    \/ MenuTick(Casual)
    \/ TickPlay(Casual)
    \/ GameOverTick(Casual)

SpecIdle == InitIdle /\ [][NextIdle]_vars

\* Runs of a player who shoots nothing and whose ship may overlap a hazard,
\* the craft and a laser in any tick, invulnerable or not; the probe keeps
\* what the ship overlapped in the last tick and its invulnerability after
\* Ship.update.
Reckless == [hits |-> 0, ufoHits |-> 0, ship |-> {0}, pick |-> TRUE,
             rolls |-> {{"shield"}}, greys |-> {1}, fire |-> {FALSE}, thrust |-> {TRUE},
             maxIdle |-> [w \in 1..1 |-> MaxStay], scoreCap |-> 0]

Touch(G, sa, su, sl) ==
    [op |-> "touch", invuln |-> G.S.ship.invuln, sa |-> sa, su |-> su, sl |-> sl]

TouchCollide(P, G) ==
    \E sa \in {0} \cup RanksFor(G.S.asteroids),
       su \in IF G.S.ufo # <<>> THEN BOOLEAN ELSE {FALSE},
       sl \in {0} \cup RanksFor(G.S.ufoBullets),
       sp \in IF P.pick THEN SUBSET LiveIdx(G.S.powerups) ELSE {{}} :
      /\ Progress(P, Resolve(G, [i \in 1..Len(G.S.bullets) |-> 0], {}, sa, su, sl, sp), TRUE)
      /\ probe' = Touch(G, sa, su, sl)

TickPlayTouch(P) ==
    /\ state.mode = "PLAY"
    /\ \E fireKey \in P.fire, thrust \in P.thrust, exits \in ExitChoices(state) :
         TouchCollide(P, Advance(Game, Dt, fireKey, thrust, exits))
    /\ UNCHANGED <<loadPending, loaded>>

InitGate == Construction /\ probe = <<>>

NextGate ==
    \/ TickMenu(Reckless)
    \/ TickPlayTouch(Reckless)

SpecGate == InitGate /\ [][NextGate]_vars

(***************************************************************************)
(* Asteroid.split on its own: the probe is a parent and what split()       *)
(* returned for it.                                                        *)
(***************************************************************************)
Xs == {0, Grain - 1, Px(W \div 2), Px(W - 1)}
Ys == {0, Grain - 1, Px(H \div 2), Px(H - 1)}

Parents ==
    { Asteroid(x, y, t, c, SpeedMultiplier(w)) :
        x \in Xs, y \in Ys, t \in 0..(Len(SIZES) - 1), c \in Colors, w \in 0..MaxWave }

InitSplit ==
    /\ Construction
    /\ \E a \in Parents : probe = [op |-> "parent", parent |-> a, children |-> <<>>]

Split ==
    /\ probe.op = "parent"
    /\ probe' = [probe EXCEPT !.op = "split", !.children = split(probe.parent)]
    /\ UNCHANGED <<state, highScore, lastPersistedHighScore, loadPending, emitted, damage,
                   best0, peak, loaded, idle, left>>

NextSplit == Split

SpecSplit == InitSplit /\ [][NextSplit]_vars

(***************************************************************************)
(* The movement of one body on real coordinates: its update(dt) and the    *)
(* wrap step of update().  The ship, bullets, hazards and power-ups are    *)
(* integrated by their own update and wrapped by integrateAndWrap; the     *)
(* craft is not passed to integrateAndWrap, Ufo.update wraps it.  The      *)
(* travel of a step is rounded down to whole pixels; the sampled positions *)
(* are whole pixels and one position less than a pixel from the edge.      *)
(***************************************************************************)
Kinds == {"ship", "bullet", "asteroid", "powerup"}

\* The sampled drift velocities, in pixels per second.
Drifts == {-120, 0, 120}

\* x0, y0: the coordinates the body's last update left, before the wrap.
Body(kind, x, y, vx, vy, fresh) ==
    [op |-> "body", kind |-> kind, x |-> x, y |-> y, vx |-> vx, vy |-> vy,
     fresh |-> fresh, steps |-> 0, x0 |-> x, y0 |-> y]

\* x += vx * dt; y += vy * dt of Ship, Bullet, Asteroid and PowerUp.update
integrate(e, dt) ==
    [e EXCEPT !.x = @ + Px((e.vx * dt) \div 600), !.y = @ + Px((e.vy * dt) \div 600)]

updated(e) == [e EXCEPT !.x0 = e.x, !.y0 = e.y]

\* The movement and edge wrap of Ufo.update.
UfoMove(u, dt) ==
    LET x1 == u.x + Px((u.vx * dt) \div 600)
        y1 == u.y + Px((u.vy * dt) \div 600)
        margin == UFO_OFFSCREEN_MARGIN
        x2 == IF u.vx # 0
              THEN IF x1 < Px(-margin) THEN Px(W + margin)
                   ELSE IF x1 > Px(W + margin) THEN Px(-margin) ELSE x1
              ELSE x1
        y2 == IF u.vy # 0
              THEN IF y1 < Px(-margin) THEN Px(H + margin)
                   ELSE IF y1 > Px(H + margin) THEN Px(-margin) ELSE y1
              ELSE y1
    IN  [u EXCEPT !.x = x2, !.y = y2, !.x0 = x1, !.y0 = y1]

\* The craft as spawnUfoForCurrentWave places it, its draws given, and
\* later in its flight, d pixels further along its axis.
UfoSpawn(horizontal, first, u, d) ==
    IF horizontal
    THEN Body("ufo", Px(IF first THEN -UFO_OFFSCREEN_MARGIN + d
                                 ELSE W + UFO_OFFSCREEN_MARGIN - d),
              Px(u), IF first THEN UFO_SPEED ELSE -UFO_SPEED, 0, d = 0)
    ELSE Body("ufo", Px(u),
              Px(IF first THEN -UFO_OFFSCREEN_MARGIN + d ELSE H + UFO_OFFSCREEN_MARGIN - d),
              0, IF first THEN UFO_SPEED ELSE -UFO_SPEED, d = 0)

Bodies ==
    { Body(k, x, y, vx, vy, FALSE) : k \in Kinds, x \in Xs, y \in Ys, vx \in Drifts, vy \in Drifts }
    \cup { Body(k, randomEdgeSpawn(edge, u, POWERUP_OFFSCREEN_MARGIN).x,
                   randomEdgeSpawn(edge, u, POWERUP_OFFSCREEN_MARGIN).y, vx, vy, TRUE) :
             k \in {"asteroid", "powerup"}, edge \in 0..3, u \in {0, H \div 2, H - 1},
             vx \in Drifts, vy \in Drifts }
    \cup { UfoSpawn(h, f, u, 0) : h \in BOOLEAN, f \in BOOLEAN, u \in {0, H \div 2, H - 1} }
    \cup { UfoSpawn(TRUE, f, u, d) :
             f \in BOOLEAN, u \in {0, H \div 2, H - 1},
             d \in {UFO_OFFSCREEN_MARGIN + W \div 2, W + 2 * UFO_OFFSCREEN_MARGIN} }
    \cup { UfoSpawn(FALSE, f, u, d) :
             f \in BOOLEAN, u \in {0, W \div 2, W - 1},
             d \in {UFO_OFFSCREEN_MARGIN + H \div 2, H + 2 * UFO_OFFSCREEN_MARGIN} }

InitWrap == Construction /\ probe \in Bodies

\* One PLAY tick of the body, of the fixed step the loop hands to update():
\* the entity's update, then the wrap step.
WrapStep ==
    /\ probe.op = "body"
    /\ probe.steps < MaxSteps
    /\ probe' = [(IF probe.kind = "ufo" THEN UfoMove(probe, FixedDt)
                  ELSE integrateAndWrap(updated(integrate(probe, FixedDt))))
                   EXCEPT !.steps = @ + 1]
    /\ UNCHANGED <<state, highScore, lastPersistedHighScore, loadPending, emitted, damage,
                   best0, peak, loaded, idle, left>>

NextWrap == WrapStep

SpecWrap == InitWrap /\ [][NextWrap]_vars

(***************************************************************************)
(* The ship's weapon on its own, tick by tick of the fixed step: Ship.update *)
(* and the shooting block of update().  The probe holds the ship, the fire *)
(* key of the last tick, the bullets that tick pushed, the cooldown the    *)
(* tick began with, the ticks since the last volley and, at a volley, the  *)
(* ticks since the volley before it.                                       *)
(***************************************************************************)
WeaponModes == {"single", "triple", "five"}

\* The sampled headings, in units of SPREAD_RAD: up, right, and a third.
Headings == {-6, 0, 5}

Gunner(mode, angle) ==
    [op |-> "ship", ship |-> [Ship(FALSE) EXCEPT !.weaponMode = mode, !.angle = angle],
     bullets |-> <<>>, fireKey |-> FALSE, cooldown0 |-> 0, since |-> NULL, gap |-> NULL,
     ticks |-> 0]

InitFire == Construction /\ probe \in { Gunner(m, a) : m \in WeaponModes, a \in Headings }

\* What the tick did to the ship and the bullets, with the history fields.
Shot(p, S, fireKey) ==
    [p EXCEPT !.ship = S.ship, !.bullets = S.bullets, !.fireKey = fireKey,
              !.cooldown0 = p.ship.cooldown,
              !.since = IF S.bullets # <<>> THEN 0 ELSE IF @ = NULL THEN NULL ELSE @ + 1,
              !.gap = IF S.bullets # <<>> /\ p.since # NULL THEN p.since + 1 ELSE NULL,
              !.ticks = @ + 1]

FireTick ==
    /\ probe.op = "ship"
    /\ probe.ticks < MaxTicks
    /\ \E fireKey \in BOOLEAN :
         probe' = Shot(probe,
                       fireVolley(updateShip([ship |-> probe.ship, bullets |-> <<>>], FixedDt,
                                             FALSE),
                                  fireKey),
                       fireKey)
    /\ UNCHANGED <<state, highScore, lastPersistedHighScore, loadPending, emitted, damage,
                   best0, peak, loaded, idle, left>>

NextFire == FireTick

SpecFire == InitFire /\ [][NextFire]_vars

(***************************************************************************)
(* The frame callback and the key edges                                    *)
(***************************************************************************)
\* The keys the game reads with pressed().
Codes == {"Enter", "KeyJ"}

\* The gaps between two frame timestamps, in time units: none, less than a
\* slice, one slice, a few slices, the clamp, and more than the clamp.
Gaps == {0, 3, FixedDt, 12, MaxFrameDt, MaxFrameDt + 5}

\* The first timestamps the host passes.
FirstStamps == {0, 3}

\* Input and the loop's timing fields after construction, with the history
\* fields: held is the keys physically down, fresh the keys that went down
\* since the last tick, ticks what pressed() reported to each tick of the last
\* callback, stamp the last timestamp, repeated the held keys whose key-down was
\* repeated since the last tick.
Host ==
    [op |-> "loop", keys |-> {}, justPressed |-> {}, justReleased |-> {},
     lastTime |-> 0, accum |-> 0,
     held |-> {}, fresh |-> {}, fresh0 |-> {}, ticks |-> <<>>, accum0 |-> 0,
     stamp |-> NULL, elapsed |-> 0, frames |-> 0, waited |-> FALSE, carried |-> FALSE,
     repeated |-> {}, repeated0 |-> {}]

InitLoop == Construction /\ probe = Host

keydown(I, code) ==
    [I EXCEPT !.justPressed = IF code \in I.keys THEN @ ELSE @ \cup {code},
              !.keys = @ \cup {code}]

keyup(I, code) ==
    [I EXCEPT !.keys = @ \ {code}, !.justReleased = @ \cup {code}]

postUpdateKeepsEdges(I) == I

postUpdate(I) == [I EXCEPT !.justPressed = {}, !.justReleased = {}]

pressed(I, code) == code \in I.justPressed

\* One fixed tick of the loop: update() reads the edges, then the slice is
\* taken off the accumulator and the edges are cleared.
fixedTick(L) ==
    postUpdate([L EXCEPT !.ticks = Append(@, { c \in Codes : pressed(L, c) }),
                         !.accum = @ - FixedDt])

RECURSIVE drain(_)
drain(L) == IF L.accum >= FixedDt THEN drain(fixedTick(L)) ELSE L

frameDt(L, time) == Min(MaxFrameDt, time - (IF L.lastTime # 0 THEN L.lastTime ELSE time))

loop(L, time) ==
    drain([L EXCEPT !.lastTime = time, !.accum = @ + frameDt(L, time), !.ticks = <<>>])

\* The history of a callback, taken from the fields before it (p) and the
\* fields after it (L).
Framed(p, L, time) ==
    [L EXCEPT !.fresh0 = p.fresh,
              !.fresh = IF L.ticks = <<>> THEN p.fresh ELSE {},
              !.accum0 = p.accum,
              !.elapsed = IF p.stamp = NULL THEN 0 ELSE time - p.stamp,
              !.stamp = time,
              !.frames = @ + 1,
              !.waited = L.ticks = <<>> /\ p.fresh # {},
              !.carried = L.ticks # <<>> /\ p.waited,
              !.repeated = IF L.ticks = <<>> THEN p.repeated ELSE {},
              !.repeated0 = p.repeated]

Rest == <<state, highScore, lastPersistedHighScore, loadPending, emitted, damage,
          best0, peak, loaded, idle, left>>

\* A key goes down.
KeyDown ==
    /\ probe.op = "loop"
    /\ \E code \in Codes \ probe.held :
         probe' = [keydown(probe, code) EXCEPT !.held = @ \cup {code},
                                               !.fresh = @ \cup {code}]
    /\ UNCHANGED Rest

\* The host repeats the key-down event of a key that is held.
KeyRepeat ==
    /\ probe.op = "loop"
    /\ \E code \in probe.held :
         probe' = [keydown(probe, code) EXCEPT !.repeated = @ \cup {code}]
    /\ UNCHANGED Rest

KeyUp ==
    /\ probe.op = "loop"
    /\ \E code \in probe.held :
         probe' = [keyup(probe, code) EXCEPT !.held = @ \ {code}]
    /\ UNCHANGED Rest

Frame ==
    /\ probe.op = "loop"
    /\ probe.frames < MaxFrames
    /\ \E time \in IF probe.stamp = NULL THEN FirstStamps
                   ELSE { probe.stamp + g : g \in Gaps } :
         probe' = Framed(probe, loop(probe, time), time)
    /\ UNCHANGED Rest

NextLoop == KeyDown \/ KeyRepeat \/ KeyUp \/ Frame

SpecLoop == InitLoop /\ [][NextLoop]_vars

(***************************************************************************)
(* systems/Collision.js: circleHit on pairs of circles.  The centres are   *)
(* sampled so that the pairs are apart, touching (on an axis and on the    *)
(* 3-4-5 diagonal), overlapping and concentric.                            *)
(***************************************************************************)
Radii == {BULLET_RADIUS, 3, SHIP_RADIUS}

Circles ==
    { [x |-> Px(x), y |-> Px(y), r |-> r] :
        x \in {0, 3, BULLET_RADIUS + 3, 2 * SHIP_RADIUS + 1}, y \in {0, 4}, r \in Radii }

Pair(a, b) == [op |-> "pair", a |-> a, b |-> b, tested |-> FALSE, ab |-> FALSE, ba |-> FALSE]

InitOverlap == Construction /\ probe \in { Pair(a, b) : a \in Circles, b \in Circles }

\* The test is made both ways round.
Overlap ==
    /\ probe.op = "pair"
    /\ ~probe.tested
    /\ probe' = [probe EXCEPT !.tested = TRUE,
                              !.ab = circleHit(probe.a, probe.b),
                              !.ba = circleHit(probe.b, probe.a)]
    /\ UNCHANGED Rest

NextOverlap == Overlap

SpecOverlap == InitOverlap /\ [][NextOverlap]_vars

(***************************************************************************)
(* utils/highScoreStorage.js and the Game's use of it.  A JavaScript value *)
(* is a record of its type t and, for a finite number, the number n; an    *)
(* IndexedDB record has, as an object, the fields value and score.  A      *)
(* promise is a record of how it settled and the value it resolved to.  A  *)
(* localStorage item is its text, a sequence of characters.                *)
(***************************************************************************)
Scalar(t, n) == [t |-> t, n |-> n]
Undefined == Scalar("undefined", 0)
Null == Scalar("null", 0)
Num(n) == Scalar("number", n)
NaN == Scalar("nan", 0)
Str == Scalar("string", 0)
Db == Scalar("db", 0)
Bool(b) == Scalar("boolean", IF b THEN 1 ELSE 0)

Stored(t, n, value, score) == [t |-> t, n |-> n, value |-> value, score |-> score]
Plain(s) == Stored(s.t, s.n, Undefined, Undefined)
Object(value, score) == Stored("object", 0, value, score)

Resolved(v) == [settled |-> "resolved", v |-> v]
Rejected == [settled |-> "rejected", v |-> Null]

DigitChars == <<"0", "1", "2", "3", "4", "5", "6", "7", "8", "9">>
DigitOf(c) == CHOOSE d \in 0..9 : DigitChars[d + 1] = c
IsDigits(s) == s # <<>> /\ \A i \in 1..Len(s) : \E d \in 0..9 : DigitChars[d + 1] = s[i]

RECURSIVE Decimal(_)
Decimal(s) ==
    IF s = <<>> THEN 0 ELSE 10 * Decimal(SubSeq(s, 1, Len(s) - 1)) + DigitOf(s[Len(s)])

\* Number(text) on the sampled texts: the empty text is 0, a decimal numeral
\* with or without a sign is its value, any other text is NaN.
Number(s) ==
    IF s = <<>> THEN Num(0)
    ELSE IF IsDigits(s) THEN Num(Decimal(s))
    ELSE IF Head(s) = "-" /\ IsDigits(Tail(s)) THEN Num(0 - Decimal(Tail(s)))
    ELSE NaN

\* String(score) of a score >= 0.
RECURSIVE String(_)
String(n) ==
    IF n < 10 THEN <<DigitChars[n + 1]>>
    ELSE String(n \div 10) \o <<DigitChars[(n % 10) + 1]>>

\* The environment: idb is whether IndexedDB is there and opens, read and
\* write how a request on the store ends, record the record under the key,
\* ls whether localStorage is there and works, item the text under the
\* fallback key (present or not).
IdbStates == {"absent", "throws", "error", "ok"}
RequestEnds == {"ok", "error", "throws"}
LsStates == {"absent", "throws", "ok"}

Records ==
    {Plain(Undefined), Plain(Num(30)), Plain(NaN), Plain(Str),
     Object(Num(40), Undefined), Object(Undefined, Num(20)), Object(Str, Num(20))}

Items ==
    {[present |-> FALSE, text |-> <<>>]}
        \cup { [present |-> TRUE, text |-> s] : s \in {<<>>, <<"3", "0">>, <<"-", "5">>, <<"x">>} }

Envs ==
    { [idb |-> i, read |-> r, write |-> w, ls |-> l, record |-> rec, item |-> it] :
        i \in IdbStates, r \in RequestEnds, w \in RequestEnds, l \in LsStates,
        rec \in Records, it \in Items }

hasIndexedDB(env) == env.idb # "absent"

openDatabaseUncaught(env) ==
    IF ~hasIndexedDB(env) THEN Resolved(Null)
    ELSE IF env.idb = "ok" THEN Resolved(Db) ELSE Rejected

openDatabase(env) ==
    IF ~hasIndexedDB(env) THEN Resolved(Null)
    ELSE IF env.idb = "ok" THEN Resolved(Db) ELSE Resolved(Null)

readFromStore(env) ==
    IF env.read = "ok"
    THEN Resolved(IF env.record.t \in {"undefined", "null"} THEN Plain(Null) ELSE env.record)
    ELSE Resolved(Plain(Null))

writeToStore(env, score) ==
    IF env.write = "ok" THEN [env EXCEPT !.record = Object(score, Undefined)] ELSE env

readFallback(env) ==
    IF env.ls # "ok" THEN Null
    ELSE IF ~env.item.present THEN Null
    ELSE IF Number(env.item.text).t = "number" THEN Number(env.item.text) ELSE Null

writeFallback(env, score) ==
    IF env.ls # "ok" THEN env
    ELSE [env EXCEPT !.item = [present |-> TRUE, text |-> String(score.n)]]

Extracted(value) ==
    IF value.value.t \notin {"undefined", "null"} THEN value.value
    ELSE IF value.score.t \notin {"undefined", "null"} THEN value.score
    ELSE Null

normalizeStoredValue(value) ==
    IF value.t \in {"undefined", "null"} THEN Null
    ELSE IF value.t \in {"number", "nan"}
         THEN IF value.t = "number" THEN Num(value.n) ELSE Null
    ELSE IF value.t = "object"
         THEN IF Extracted(value).t = "number" THEN Extracted(value) ELSE Null
    ELSE Null

\* loadHighScore from the await of openDatabase on.
loadFrom(env, db) ==
    IF db.settled = "rejected" THEN Rejected
    ELSE IF db.v.t = "db" /\ readFromStore(env).settled = "rejected" THEN Rejected
    ELSE IF db.v.t = "db" /\ normalizeStoredValue(readFromStore(env).v).t = "number"
         THEN Resolved(normalizeStoredValue(readFromStore(env).v))
    ELSE Resolved(readFallback(env))

loadHighScore(env) == loadFrom(env, openDatabase(env))

\* saveHighScore from the await of openDatabase on: the promise, and the
\* environment the writes leave.
saveTo(env, score, db) ==
    IF db.settled = "rejected" THEN [promise |-> Rejected, env |-> env]
    ELSE [promise |-> Resolved(Bool(TRUE)),
          env |-> writeFallback(IF db.v.t = "db" THEN writeToStore(env, score) ELSE env, score)]

saveHighScore(env, score) ==
    IF score.t # "number" THEN [promise |-> Resolved(Bool(FALSE)), env |-> env]
    ELSE saveTo(env, score, openDatabase(env))

\* The scores handed to saveHighScore.
SavedScores == {Num(SCORE_LARGE), Num(7 * SCORE_LARGE), NaN}

Keeper(env) == [op |-> "store", env |-> env, call |-> "none", last |-> Resolved(Null), saves |-> 0]

InitStore == Construction /\ probe \in { Keeper(env) : env \in Envs }

\* _loadHighScoreAsync: the load, and its then and catch handlers.
Load ==
    /\ probe.op = "store"
    /\ loadPending
    /\ probe' = [probe EXCEPT !.call = "load", !.last = loadHighScore(probe.env)]
    /\ loadPending' = FALSE
    /\ IF probe'.last.settled = "resolved" /\ probe'.last.v.t = "number" /\ probe'.last.v.n >= 0
       THEN /\ highScore' = probe'.last.v.n
            /\ lastPersistedHighScore' = probe'.last.v.n
            /\ state' = [state EXCEPT !.highScore = probe'.last.v.n]
            /\ loaded' = probe'.last.v.n
       ELSE UNCHANGED <<highScore, lastPersistedHighScore, state, loaded>>
    /\ UNCHANGED <<emitted, damage, best0, peak, idle, left>>

Save ==
    /\ probe.op = "store"
    /\ probe.saves < MaxSaves
    /\ \E score \in SavedScores :
         probe' = [probe EXCEPT !.call = "save",
                                !.last = saveHighScore(probe.env, score).promise,
                                !.env = saveHighScore(probe.env, score).env,
                                !.saves = @ + 1]
    /\ UNCHANGED Rest

\* The start command once the load has settled.
StartLoaded ==
    /\ probe.op = "store"
    /\ ~loadPending
    /\ state.mode = "MENU"
    /\ StartButton(Wanderer)

NextStore == Load \/ Save \/ StartLoaded

SpecStore == InitStore /\ [][NextStore]_vars

(***************************************************************************)
(* _handleBulletCollisions on real coordinates: the bullets, the hazards   *)
(* and the craft are circles and circleHit decides what overlaps.  The     *)
(* probe holds the collections before the handler, the Game after it and   *)
(* the log of the onHit calls: which bullet destroyed which hazard.        *)
(***************************************************************************)
At(e, x, y, r) == [x |-> Px(x), y |-> Px(y), r |-> r] @@ e

\* Where the sampled bullets are: inside the large hazard and the small one,
\* at the large hazard's centre, touching the small hazard only, touching
\* the medium hazard, and in the open.
BulletSpots == {<<120, 100>>, <<100, 100>>, <<150, 100>>, <<400, 130>>, <<700, 300>>}

ShotBullet(p) == At(Bullet(0), p[1], p[2], BULLET_RADIUS)

HazardA == Asteroid(Px(100), Px(100), 0, "brown", 10)
HazardB == Asteroid(Px(130), Px(100), 2, "grey", 10)
HazardC == Asteroid(Px(400), Px(100), 1, "brown", 10)

\* The hazard collections: the three hazards in every order, any of them
\* missing, the first one possibly dead already.
HazardRows ==
    { s \in UNION { [1..n -> {HazardA, HazardB, HazardC}] : n \in 0..3 } :
        \A i, j \in 1..Len(s) : i # j => s[i] # s[j] }

BulletRows == UNION { [1..n -> { ShotBullet(p) : p \in BulletSpots }] : n \in 1..MaxVolley }

\* The craft, over the small hazard, after n bullet hits.
RECURSIVE HitTimes(_, _)
HitTimes(u, n) == IF n = 0 THEN u ELSE takeHit(HitTimes(u, n - 1))

CraftAfter(n) == At(HitTimes(Ufo, n), 130, 100, UFO_RADIUS)

Crafts == {<<>>} \cup { <<CraftAfter(n)>> : n \in 0..(HITS_TO_DESTROY - 1) }

Range(G0) ==
    [op |-> "range", bullets |-> G0.S.bullets, asteroids |-> G0.S.asteroids, ufo |-> G0.S.ufo,
     G |-> G0, log |-> <<>>, done |-> FALSE]

Ranged(bullets, asteroids, ufo, firstDead) ==
    Range([Game EXCEPT !.S.mode = "PLAY", !.S.bullets = bullets, !.S.ufo = ufo,
                       !.S.asteroids = [i \in 1..Len(asteroids) |->
                           [asteroids[i] EXCEPT !.dead = (firstDead /\ i = 1)]]])

InitRange ==
    /\ Construction
    /\ probe \in { Ranged(b, a, u, d) :
                     b \in BulletRows, a \in HazardRows, u \in Crafts, d \in BOOLEAN }

\* The inner loop of forEachBulletAsteroidHit: the first live hazard of the
\* collection the bullet overlaps, 0 for none.
lastOverlap(b, asteroids) ==
    IF \E j \in LiveIdx(asteroids) : circleHit(b, asteroids[j])
    THEN CHOOSE j \in LiveIdx(asteroids) :
            /\ circleHit(b, asteroids[j])
            /\ \A k \in LiveIdx(asteroids) : circleHit(b, asteroids[k]) => k <= j
    ELSE 0

firstOverlap(b, asteroids) ==
    IF \E j \in LiveIdx(asteroids) : circleHit(b, asteroids[j])
    THEN CHOOSE j \in LiveIdx(asteroids) :
            /\ circleHit(b, asteroids[j])
            /\ \A k \in LiveIdx(asteroids) : circleHit(b, asteroids[k]) => j <= k
    ELSE 0

\* The onHit callback, with the log entry of the call.
onHitAt(R, bi, ai) ==
    [R EXCEPT !.G = onBulletHit(@, bi, ai),
              !.log = Append(@, [bullet |-> bi, hazard |-> ai])]

RECURSIVE bulletAsteroidLoop(_, _)
bulletAsteroidLoop(R, i) ==
    IF i > Len(R.G.S.bullets) THEN R
    ELSE IF R.G.S.bullets[i].dead \/ firstOverlap(R.G.S.bullets[i], R.G.S.asteroids) = 0
         THEN bulletAsteroidLoop(R, i + 1)
         ELSE bulletAsteroidLoop(
                  onHitAt(R, i, firstOverlap(R.G.S.bullets[i], R.G.S.asteroids)), i + 1)

\* The bullets that overlap the craft.
OverCraft(S) ==
    IF S.ufo = <<>> THEN {} ELSE { i \in 1..Len(S.bullets) : circleHit(S.bullets[i], S.ufo[1]) }

craftLoop(R) == [R EXCEPT !.G = bulletUfoLoop(@, OverCraft(R.G.S), 1), !.done = TRUE]

Shoot ==
    /\ probe.op = "range"
    /\ ~probe.done
    /\ probe' = craftLoop(bulletAsteroidLoop(probe, 1))
    /\ UNCHANGED Rest

NextRange == Shoot

SpecRange == InitRange /\ [][NextRange]_vars

(***************************************************************************)
(* The lasers of one tick on real coordinates: UfoLaser.update moves each  *)
(* laser and decides whether it left the margin box, the wrap loop passes  *)
(* the lasers by, _handleShipHazardCollisions gets the first live laser    *)
(* that circleHit finds over the ship, and the cleanup filter follows.     *)
(* The velocity components are sampled where vx * dt is a whole number of  *)
(* position units.                                                         *)
(***************************************************************************)
UFO_LASER_RADIUS == 6

LaserXs == {-34, -33, 2, 480, 958, 993, 994}
LaserYs == {-34, -33, 270, 573, 574}
LaserVels == {<<360, 0>>, <<-360, 0>>, <<0, 360>>, <<0, -360>>, <<-240, -270>>}
LaserLives == {FixedDt, 2 * FixedDt, LASER_LIFETIME}

FlyingLaser(x, y, v, life) ==
    [vx |-> v[1], vy |-> v[2]] @@ At([UfoLaser EXCEPT !.lifetime = life], x, y, UFO_LASER_RADIUS)

\* A second laser in flight over the centre of the play area, before or
\* after the sampled one in the collection, or none.
CentreLaser == FlyingLaser(W \div 2, H \div 2, <<360, 0>>, LASER_LIFETIME)
LaserRows(l) == {<<l>>, <<CentreLaser, l>>, <<l, CentreLaser>>}

ShipSpots == {<<2, 270>>, <<W \div 2, H \div 2>>}

Lasers(G0) ==
    [op |-> "laser", lasers |-> G0.S.ufoBullets, ship |-> G0.S.ship, G |-> G0, done |-> FALSE]

Flown(lasers, spot, shield) ==
    Lasers([Game EXCEPT !.S.mode = "PLAY", !.S.ufoBullets = lasers,
                        !.S.ship = At([Ship(FALSE) EXCEPT !.shieldLevel = shield],
                                      spot[1], spot[2], SHIP_RADIUS)])

InitLaser ==
    /\ Construction
    /\ probe \in { Flown(row, spot, shield) :
                     row \in UNION { LaserRows(FlyingLaser(x, y, v, life)) :
                                       x \in LaserXs, y \in LaserYs, v \in LaserVels,
                                       life \in LaserLives },
                     spot \in ShipSpots, shield \in 0..1 }

\* this.x += this.vx * dt; this.y += this.vy * dt
Moved(l, dt) ==
    [l EXCEPT !.x = @ + (l.vx * dt * Grain) \div 600, !.y = @ + (l.vy * dt * Grain) \div 600]

\* this.x < -margin || this.x > W + margin || this.y < -margin || this.y > H + margin
Exits(l) ==
    \/ l.x < Px(-UFO_OFFSCREEN_MARGIN) \/ l.x > Px(W + UFO_OFFSCREEN_MARGIN)
    \/ l.y < Px(-UFO_OFFSCREEN_MARGIN) \/ l.y > Px(H + UFO_OFFSCREEN_MARGIN)

laserUpdate(l, dt) == UfoLaserUpdate(Moved(l, dt), dt, Exits(Moved(l, dt)))

flyLasers(G, dt) ==
    [G EXCEPT !.S.ufoBullets = [i \in 1..Len(@) |-> laserUpdate(@[i], dt)]]

wrapOthers(G) == [G EXCEPT !.S = wrapAsteroids(@)]

\* The rank, among the live lasers, of the first one over the ship.
OverShip(S) == { i \in LiveIdx(S.ufoBullets) : circleHit(S.ship, S.ufoBullets[i]) }
FirstOverShip(S) ==
    IF OverShip(S) = {} THEN 0
    ELSE Cardinality({ j \in LiveIdx(S.ufoBullets) :
                         \A i \in OverShip(S) : j <= i })

meetShip(G) == powerupsAndCleanup(shipCollisions(G, 0, FALSE, FirstOverShip(G.S)), {})

Fly ==
    /\ probe.op = "laser"
    /\ ~probe.done
    /\ probe' = [probe EXCEPT !.G = meetShip(wrapOthers(flyLasers(@, FixedDt))),
                              !.done = TRUE]
    /\ UNCHANGED Rest

NextLaser == Fly

SpecLaser == InitLaser /\ [][NextLaser]_vars

(***************************************************************************)
(* _handlePowerupCollisions and the cleanup on a ship at any level of each *)
(* effect, with one or two power-ups in play, any of them over the ship.   *)
(***************************************************************************)
WeaponSteps == <<"single", "triple", "five">>
LivesDraws == {1, MAX_LIVES - 1, MAX_LIVES}
SpeedDraws == {0, SPEED_MAX_LEVEL - 1, SPEED_MAX_LEVEL}
PowerupRows == UNION { [1..n -> { PowerUp(PowerupTypes[t]) : t \in 1..Len(PowerupTypes) }] : n \in 1..2 }

Pickup(G0, sp) ==
    [op |-> "pickup", G0 |-> G0, sp |-> sp, G |-> G0, log |-> <<>>, done |-> FALSE]

Equipped(w, lives, shield, speed, row, sp) ==
    Pickup([Game EXCEPT !.S.mode = "PLAY", !.S.lives = lives, !.S.powerups = row,
                        !.S.ship = [Ship(FALSE) EXCEPT !.weaponMode = WeaponSteps[w],
                                                       !.shieldLevel = shield,
                                                       !.speedLevel = speed]], sp)

InitPickup ==
    /\ Construction
    /\ probe \in { Equipped(w, lives, shield, speed, row, sp) :
                     w \in 1..Len(WeaponSteps), lives \in LivesDraws,
                     shield \in 0..SHIELD_MAX_LEVEL, speed \in SpeedDraws,
                     row \in PowerupRows, sp \in SUBSET {1, 2} }

\* The loop body, with the log entry of the pickup.
pickUpAt(R, i) ==
    [R EXCEPT !.G = pickUp(@, i),
              !.log = Append(@, [powerup |-> i, type |-> R.G.S.powerups[i].type,
                                 before |-> R.G.S, after |-> pickUp(R.G, i).S])]

RECURSIVE powerupLoop(_, _)
powerupLoop(R, i) ==
    IF i > Len(R.G.S.powerups) THEN R
    ELSE IF ~R.G.S.powerups[i].dead /\ i \in R.sp
         THEN powerupLoop(pickUpAt(R, i), i + 1)
         ELSE powerupLoop(R, i + 1)

sweep(R) == [R EXCEPT !.G = tidy(reportScore(@)), !.done = TRUE]

Collect ==
    /\ probe.op = "pickup"
    /\ ~probe.done
    /\ probe' = sweep(powerupLoop(probe, 1))
    /\ UNCHANGED Rest

NextPickup == Collect

SpecPickup == InitPickup /\ [][NextPickup]_vars

(***************************************************************************)
(* The levels of a run under any sequence of pickups, hits, respawns and   *)
(* restarts: _handlePowerupCollisions with a power-up of any of the three  *)
(* types over the ship, _handleShipHazardCollisions with the craft or a    *)
(* laser over a ship whose invulnerability has run out, and reset().       *)
(***************************************************************************)
LevelTypes == {"extraLife", "shield", "speed"}

Settled(G) == [op |-> "levels", G |-> [G EXCEPT !.out = <<>>, !.hits = <<>>]]

InitLevels ==
    /\ Construction
    /\ probe = Settled(startGame(Game, [i \in 1..WaveCount(0) |-> "brown"], {}))

offered(G, type) == [G |-> [G EXCEPT !.S.powerups = <<PowerUp(type)>>], survived |-> TRUE]

Pick ==
    /\ probe.G.S.mode = "PLAY"
    /\ probe.G.S.score < MaxBonus
    /\ \E type \in LevelTypes :
         probe' = Settled(powerupsAndCleanup(offered(probe.G, type), {1}))
    /\ UNCHANGED Rest

\* The ship after its invulnerability has run out, the craft and a laser in play.
exposed(G) ==
    [G EXCEPT !.S.ship = ShipUpdate(@, RESPAWN_INVULN, FALSE),
              !.S.ufo = <<Ufo>>, !.S.ufoBullets = <<UfoLaser>>]

Strike ==
    /\ probe.G.S.mode = "PLAY"
    /\ \E su \in BOOLEAN, sl \in 0..1 :
         /\ su \/ sl # 0
         /\ probe' = Settled(powerupsAndCleanup(
                                 shipCollisions(exposed(probe.G), 0, su, sl), {}))
    /\ UNCHANGED Rest

Again ==
    /\ probe.G.S.mode # "MENU"
    /\ probe' = Settled(reset(probe.G, [i \in 1..WaveCount(0) |-> "brown"], {}))
    /\ UNCHANGED Rest

NextLevels == Pick \/ Strike \/ Again

SpecLevels == InitLevels /\ [][NextLevels]_vars

(***************************************************************************)
(* The collision phase of one PLAY tick on real coordinates, behind the    *)
(* per-entity updates that flag the expired dead: bullets, hazards, the    *)
(* craft, a laser, a power-up and the ship are circles, and circleHit      *)
(* decides what overlaps.  The probe holds the state before the tick, the  *)
(* Game after it and the log of the onHit calls.                           *)
(***************************************************************************)
POWERUP_RADIUS == 14

\* Bullets about to expire in this tick and bullets just fired.
BulletLives == {Dt, BULLET_LIFETIME}
SweepBulletSpots == {<<120, 100>>, <<100, 100>>, <<150, 100>>, <<400, 130>>}
SweepBullets ==
    UNION { [1..n -> { [ShotBullet(p) EXCEPT !.lifetime = life] :
                         p \in SweepBulletSpots, life \in BulletLives }] : n \in 1..2 }

\* The ship over the large and the small hazard, or in the open.
SweepShipSpots == {<<100, 100>>, <<700, 300>>}
SweepShips == {<<1, 1>>, <<0, 3>>, <<0, 1>>}
SweepCrafts == {<<>>, <<CraftAfter(0)>>, <<CraftAfter(HITS_TO_DESTROY - 1)>>}
SweepLasers ==
    {<<>>} \cup { <<FlyingLaser(100, 110, <<0, 0>>, life)>> : life \in {Dt, LASER_LIFETIME} }
SweepPowerups == {<<>>, <<At(PowerUp("shield"), 100, 90, POWERUP_RADIUS)>>}

Swept(bullets, asteroids, ufo, lasers, powerups, spot, ship) ==
    Range([Game EXCEPT !.S.mode = "PLAY", !.S.bullets = bullets, !.S.ufo = ufo,
                       !.S.asteroids = asteroids, !.S.ufoBullets = lasers,
                       !.S.powerups = powerups, !.S.lives = ship[2],
                       !.S.ship = At([Ship(FALSE) EXCEPT !.shieldLevel = ship[1]],
                                     spot[1], spot[2], SHIP_RADIUS)])

InitSweep ==
    /\ Construction
    /\ probe \in { [Swept(b, a, u, l, p, spot, ship) EXCEPT !.op = "sweep"] :
                     b \in SweepBullets, a \in HazardRows, u \in SweepCrafts,
                     l \in SweepLasers, p \in SweepPowerups,
                     spot \in SweepShipSpots, ship \in SweepShips }

\* The per-entity updates that flag the expired dead.
expire(G, dt) == [G EXCEPT !.S = updateLasers(updateEntities(@, dt), dt, {})]

findShipAsteroidHitAny(ship, asteroids) ==
    IF \E j \in 1..Len(asteroids) : circleHit(ship, asteroids[j])
    THEN CHOOSE j \in 1..Len(asteroids) :
            /\ circleHit(ship, asteroids[j])
            /\ \A k \in 1..Len(asteroids) : circleHit(ship, asteroids[k]) => j <= k
    ELSE 0

\* findShipAsteroidHit: the first live hazard the ship overlaps, 0 for none.
findShipAsteroidHit(ship, asteroids) == firstOverlap(ship, asteroids)

\* The ship set down by a respawn is at the centre of the play area.
Placed(ship) ==
    IF "x" \in DOMAIN ship THEN ship ELSE At(ship, W \div 2, H \div 2, SHIP_RADIUS)

OverCraftShip(S) == S.ufo # <<>> /\ circleHit(S.ship, S.ufo[1])

shipSweep(G) ==
    IF G.S.ship.invuln <= 0
    THEN afterHazards(hitByHazard(G, findShipAsteroidHit(G.S.ship, G.S.asteroids)),
                      OverCraftShip(G.S), FirstOverShip(G.S))
    ELSE [G |-> G, survived |-> TRUE]

OverPowerups(S) ==
    { i \in 1..Len(S.powerups) : circleHit(Placed(S.ship), S.powerups[i]) }

pickSweep(R) == powerupsAndCleanup(R, OverPowerups(R.G.S))

shipPhase(R) == [R EXCEPT !.G = pickSweep(shipSweep(@)), !.done = TRUE]

expirePhase(R, dt) == [R EXCEPT !.G = expire(@, dt)]

Sweep ==
    /\ probe.op = "sweep"
    /\ ~probe.done
    /\ probe' = shipPhase(craftLoop(bulletAsteroidLoop(expirePhase(probe, Dt), 1)))
    /\ UNCHANGED Rest

NextSweep == Sweep

SpecSweep == InitSweep /\ [][NextSweep]_vars

(***************************************************************************)
(* Properties                                                              *)
(***************************************************************************)
Events(log, type) == { i \in 1..Len(log) : log[i].type = type }

\* C1: every call of damageShip made with shield level > 0 takes exactly one
\* shield level and leaves the lives; every call made with shield level 0
\* takes exactly one life, and the mode is GAME_OVER after it if and only if
\* the lives left are <= 0.
C1_DamageContract ==
    \A i \in 1..Len(damage) :
        LET h == damage[i]
        IN  IF h.shield0 > 0
            THEN h.shield1 = h.shield0 - 1 /\ h.lives1 = h.lives0
            ELSE h.lives1 = h.lives0 - 1 /\ (h.mode1 = "GAME_OVER" <=> h.lives1 <= 0)

C1_ShieldTookTheHit ==
    \E i \in 1..Len(damage) : damage[i].shield0 > 0 /\ damage[i].lives1 = LIVES

\* C2: when the ship, with shield level 1 and no invulnerability left,
\* overlaps a live tier-0 hazard in a PLAY tick, damageShip leaves shield
\* level 0, the invulnerability SHIELD_HIT_INVULN and the lives it found,
\* and after the tick the hazard is gone from the collection and SPLIT_COUNT
\* tier-1 children of it have been added at its position.
C2_ShieldedHitSplitsHazard ==
    \A i \in 1..Len(damage) :
        LET h == damage[i]
        IN  (h.by = "hazard" /\ h.shield0 = 1 /\ h.invuln0 <= 0 /\ h.hazard[1].sizeIndex = 0)
            => /\ h.shield1 = 0
               /\ h.invuln1 = SHIELD_HIT_INVULN /\ SHIELD_HIT_INVULN > 0
               /\ h.lives1 = h.lives0
               /\ Copies(state.asteroids, h.hazard[1]) = h.copies0 - 1
               /\ Children(state.asteroids, h.hazard[1]) = h.children0 + SPLIT_COUNT

\* C3: a step in which the ship, unshielded, with one life and no
\* invulnerability left, overlaps a live hazard ends with lives 0 and mode
\* GAME_OVER and emits exactly one game-over notification, which carries the
\* final score, the current wave and a high score >= that score; and a
\* game-over notification is emitted by no step other than one from PLAY to
\* GAME_OVER.
C3_LastLife ==
    [][ /\ \A i \in 1..Len(damage') :
             (damage'[i].by = "hazard" /\ damage'[i].shield0 = 0 /\ damage'[i].lives0 = 1
              /\ damage'[i].invuln0 <= 0)
             => /\ state'.lives = 0
                /\ state'.mode = "GAME_OVER"
                /\ Cardinality(Events(emitted', "game-over")) = 1
                /\ \A e \in Events(emitted', "game-over") :
                     /\ emitted'[e].score = state'.score
                     /\ emitted'[e].wave = state'.wave
                     /\ emitted'[e].highScore >= emitted'[e].score
        /\ Events(emitted', "game-over") # {}
             => state.mode = "PLAY" /\ state'.mode = "GAME_OVER"
      ]_vars

C3_RunOverNotified ==
    /\ state.mode = "GAME_OVER"
    /\ state.score > 0
    /\ Events(emitted, "game-over") # {}
    /\ \E i \in 1..Len(damage) : damage[i].by = "hazard" /\ damage[i].lives0 = 1

\* C4: the mode is MENU at first, and every step that changes it goes from
\* MENU to PLAY, from PLAY to GAME_OVER (in a tick whose damageShip took the
\* last life), from GAME_OVER to PLAY, or from PLAY or GAME_OVER to MENU.
C4_ModeChanges ==
    /\ state.mode = "MENU"
    /\ [][ state'.mode # state.mode
            => \/ state.mode = "MENU" /\ state'.mode = "PLAY"
               \/ /\ state.mode = "PLAY" /\ state'.mode = "GAME_OVER"
                  /\ state'.lives = 0
                  /\ damage' # <<>>
               \/ state.mode = "GAME_OVER" /\ state'.mode = "PLAY"
               \/ state.mode \in {"PLAY", "GAME_OVER"} /\ state'.mode = "MENU"
         ]_vars

C4_RunOver == state.mode = "GAME_OVER" /\ state.lives = 0 /\ emitted = <<>>

\* C5: a step increments the wave only from PLAY to PLAY and only when its
\* progression check found the hazard collection, cleaned of the dead,
\* empty; and every step whose progression check finds it empty increments
\* the wave.
C5_WaveAdvancesWhenCleared ==
    [][ /\ state'.wave > state.wave
             => state.mode = "PLAY" /\ state'.mode = "PLAY" /\ left' = 0
        /\ left' = 0 => state'.wave = state.wave + 1
      ]_vars

C5_LastHazardDestroyed == left = 0 /\ state.wave > 0 /\ state.mode = "PLAY"

\* C6: within a run the wave stays or grows by exactly 1, and a step that
\* increments it leaves exactly START_COUNT + wave * GROWTH hazards, all of
\* tier 0, for the new wave.
C6_WaveSize ==
    [][ /\ state'.wave \in {state.wave, state.wave + 1}
        /\ state'.wave = state.wave + 1
             => /\ Len(state'.asteroids) = START_COUNT + state'.wave * GROWTH
                /\ \A j \in 1..Len(state'.asteroids) :
                     state'.asteroids[j].sizeIndex = 0 /\ ~state'.asteroids[j].dead
      ]_vars

C6_SecondWave ==
    /\ state.wave = 1
    /\ state.lives = LIVES
    /\ state.score >= WaveCount(0) * TierScore(0)
    /\ Len(state.asteroids) = START_COUNT + 1 * GROWTH
    /\ \A j \in 1..Len(state.asteroids) : state.asteroids[j].sizeIndex = 0

\* C7: a step that neither starts a run nor returns to the menu never
\* lowers the score.
C7_ScoreNeverDrops ==
    [][ (Events(emitted', "game-started") = {} /\ Events(emitted', "game-returned-to-menu") = {})
          => state'.score >= state.score ]_vars

C7_ScoredEveryWay ==
    state.score >= WaveScore(0, MaxWave) + UFO_SCORE_VALUE + DuplicateScore.shield + SCORE_LARGE

\* C8: in a run the high score is the maximum of the best known before (the
\* value the run started with, or the loaded one) and the scores the run has
\* reached, and it is never below the score.
C8_HighScoreIsMax ==
    state.mode # "MENU"
      => /\ highScore >= state.score
         /\ highScore \in {Max(best0, peak), Max(loaded, peak), Max(Max(best0, loaded), peak)}

\* C9: split() of a hazard of tier 0 or 1 returns exactly SPLIT_COUNT
\* hazards of the next tier, each at the parent's position with the parent's
\* colour variant and speed multiplier; split() of a tier-2 hazard returns
\* none.
C9_Split ==
    probe.op = "split"
      => LET a == probe.parent
             kids == probe.children
         IN  /\ a.sizeIndex \in {0, 1}
                  => /\ Len(kids) = SPLIT_COUNT
                     /\ \A i \in 1..Len(kids) :
                          /\ kids[i].sizeIndex = a.sizeIndex + 1
                          /\ kids[i].x = a.x /\ kids[i].y = a.y
                          /\ kids[i].colorVariant = a.colorVariant
                          /\ kids[i].speedMultiplier = a.speedMultiplier
             /\ a.sizeIndex = 2 => kids = <<>>

C9_LargeSplit ==
    probe.op = "split" /\ probe.parent.sizeIndex = 0 /\ Len(probe.children) = SPLIT_COUNT

\* C10, as stated: after the wrap step every body, the craft included, has
\* 0 <= x < W and 0 <= y < H.
C10_AllInPlayArea ==
    (probe.op = "body" /\ probe.steps > 0)
      => 0 <= probe.x /\ probe.x < Px(W) /\ 0 <= probe.y /\ probe.y < Px(H)

\* A wrapped coordinate c of a body whose update left it at c0: within
\* [0, max), or exactly max when c0 was below zero by no more than half the
\* spacing of the numbers at max, so that c0 + max was rounded up to max.
Wrapped(c, c0, max) ==
    /\ 0 <= c
    /\ c < Px(max) \/ (c = Px(max) /\ c0 < 0 /\ -Grain <= 2 * c0)

\* C10, amended: after the wrap step the ship, every bullet, every hazard
\* and every power-up has 0 <= x < W and 0 <= y < H, wherever it was spawned,
\* but for a coordinate that was less than a rounding step below zero, which
\* is put at exactly W or H; the craft, which its own update wraps, stays
\* within OFFSCREEN_MARGIN of the play area.
C10_InPlayAreaOrMargin ==
    (probe.op = "body" /\ probe.steps > 0)
      => IF probe.kind = "ufo"
         THEN /\ Px(-UFO_OFFSCREEN_MARGIN) <= probe.x
              /\ probe.x <= Px(W + UFO_OFFSCREEN_MARGIN)
              /\ Px(-UFO_OFFSCREEN_MARGIN) <= probe.y
              /\ probe.y <= Px(H + UFO_OFFSCREEN_MARGIN)
         ELSE /\ Wrapped(probe.x, probe.x0, W)
              /\ Wrapped(probe.y, probe.y0, H)

C10_FreshHazardWrapped ==
    /\ probe.op = "body" /\ probe.kind = "asteroid" /\ probe.fresh /\ probe.steps = 1
    /\ probe.x = Px(W - POWERUP_OFFSCREEN_MARGIN)

\* The headings of a volley, in the order the bullets were pushed.
Angles(bullets) == [i \in 1..Len(bullets) |-> bullets[i].angle]

\* C11: a tick pushes a volley exactly when the fire key is down and the
\* cooldown, counted down by the tick, is <= 0; the volley is 5, 3 or 1
\* bullets at baseAngle + k * spread for the weapon mode, it sets the cooldown
\* to FIRE_COOLDOWN, and the next volley comes no sooner than FIRE_COOLDOWN
\* later.
C11_Volley ==
    (probe.op = "ship" /\ probe.ticks > 0)
      => /\ probe.bullets # <<>> <=> (probe.fireKey /\ probe.cooldown0 - FixedDt <= 0)
         /\ probe.bullets # <<>> =>
               /\ probe.ship.cooldown = FIRE_COOLDOWN
               /\ Angles(probe.bullets) =
                    [i \in 1..(IF probe.ship.weaponMode = "five" THEN 5
                               ELSE IF probe.ship.weaponMode = "triple" THEN 3 ELSE 1) |->
                       probe.ship.angle
                       + (i - (IF probe.ship.weaponMode = "five" THEN 3
                               ELSE IF probe.ship.weaponMode = "triple" THEN 2 ELSE 1))
                         * SPREAD_RAD]
               /\ \A i \in 1..Len(probe.bullets) : ~probe.bullets[i].dead
         /\ probe.gap # NULL => probe.gap * FixedDt >= FIRE_COOLDOWN

\* A second volley of five, as soon as the cooldown allowed it.
C11_SecondVolleyOfFive ==
    /\ probe.op = "ship" /\ probe.ship.weaponMode = "five" /\ Len(probe.bullets) = 5
    /\ probe.gap # NULL /\ (probe.gap - 1) * FixedDt < FIRE_COOLDOWN

\* The entities of a run that has just begun: START_COUNT live hazards of
\* tier 0, no bullet, no laser, no craft, and live power-ups of different
\* types.
FirstWaveOnly(S) ==
    /\ Len(S.asteroids) = START_COUNT
    /\ \A i \in 1..Len(S.asteroids) : S.asteroids[i].sizeIndex = 0 /\ ~S.asteroids[i].dead
    /\ S.bullets = <<>> /\ S.ufoBullets = <<>> /\ S.ufo = <<>>
    /\ \A i \in 1..Len(S.powerups) :
          /\ ~S.powerups[i].dead
          /\ \E k \in 1..Len(PowerupTypes) : S.powerups[i].type = PowerupTypes[k]
          /\ \A j \in 1..Len(S.powerups) : S.powerups[j].type = S.powerups[i].type => j = i

\* C12: a step from MENU to PLAY leaves score 0, LIVES lives, wave 0, a ship
\* at the centre with the single weapon, no shield and no speed level, the
\* first wave and nothing else.
C12_StartLeavesFreshRun ==
    [][(state.mode = "MENU" /\ state'.mode = "PLAY")
         => /\ state'.score = 0 /\ state'.lives = LIVES /\ state'.wave = 0
            /\ state'.ship.pos = "centre" /\ state'.ship.weaponMode = "single"
            /\ state'.ship.shieldLevel = 0 /\ state'.ship.speedLevel = 0
            /\ FirstWaveOnly(state')]_vars

\* A run that began from the menu with two power-ups rolled, after the load
\* of the stored high score.
C12_StartedWithRolls ==
    /\ state.mode = "PLAY" /\ Events(emitted, "game-started") # {}
    /\ Len(state.powerups) = 2 /\ loaded = 30 /\ state.highScore = 30

\* What the claim compares of a run state; the draws (positions, colours,
\* power-up rolls) are left out.
RunSummary(S) ==
    [mode |-> S.mode, score |-> S.score, lives |-> S.lives, wave |-> S.wave, ship |-> S.ship,
     hazards |-> Len(S.asteroids), bullets |-> S.bullets, ufoBullets |-> S.ufoBullets,
     ufo |-> S.ufo, ufoSpawnTimer |-> S.ufoSpawnTimer, highScore |-> S.highScore,
     didBeatHighScore |-> S.didBeatHighScore]

\* The Game in MENU with the high score the Game has now.
MenuGame == [Game EXCEPT !.S = createInitialState(highScore)]

\* C13: a restart in GAME_OVER leaves the run state that startGame() leaves
\* when invoked in MENU with the same high score, whatever the draws, and both
\* emit exactly one game-started event.
C13_RestartIsStart ==
    [][/\ (state.mode = "GAME_OVER" /\ state'.mode = "PLAY")
          => /\ \A colors \in ColorDraws(WaveCount(0), {0, 1}), rolls \in RollDraws :
                  RunSummary(state') = RunSummary(startGame(MenuGame, colors, rolls).S)
             /\ Cardinality(Events(emitted', "game-started")) = 1
             /\ Len(emitted') = 1
       /\ (state.mode = "MENU" /\ state'.mode = "PLAY")
          => /\ state = MenuGame.S
             /\ Cardinality(Events(emitted', "game-started")) = 1
             /\ Len(emitted') = 1]_vars

\* A run restarted after a game over in which the player had scored.
C13_RestartedAfterScoring ==
    /\ state.mode = "PLAY" /\ Events(emitted, "game-started") # {}
    /\ state.highScore > 0 /\ state.score = 0 /\ ~state.didBeatHighScore

\* C14: a step from PLAY or GAME_OVER to MENU leaves score 0, wave 0, LIVES
\* lives, no hazards, bullets, power-ups, lasers or craft and no spawn timer,
\* keeps the high score and the last persisted high score, and emits one
\* game-returned-to-menu event and no save.
C14_ReturnToMenuDiscardsRun ==
    [][(state.mode # "MENU" /\ state'.mode = "MENU")
         => /\ state'.score = 0 /\ state'.wave = 0 /\ state'.lives = LIVES
            /\ state'.asteroids = <<>> /\ state'.bullets = <<>> /\ state'.powerups = <<>>
            /\ state'.ufoBullets = <<>> /\ state'.ufo = <<>>
            /\ state'.ufoSpawnTimer = NULL /\ ~state'.ufoSpawnedThisWave
            /\ highScore' = highScore /\ state'.highScore = highScore
            /\ lastPersistedHighScore' = lastPersistedHighScore
            /\ Len(emitted') = 1 /\ emitted'[1].type = "game-returned-to-menu"]_vars

\* The menu, after a run in which the player had scored was left for it.
C14_ScoredRunLeft ==
    /\ state.mode = "MENU" /\ Events(emitted, "game-returned-to-menu") # {}
    /\ highScore >= 2 * SCORE_LARGE /\ lastPersistedHighScore = highScore

\* The best score known before the run: the high score the run began with,
\* and the stored one once its load has resolved.
PreviousBest == Max(best0, IF loaded = NULL THEN 0 ELSE loaded)

\* C15: a game-over event says newHighScore exactly when its score is above
\* the best score known before the run, and its highScore is the larger of
\* that best and the score, whenever the load of the stored high score
\* resolves.
C15_RunOverFlag ==
    \A i \in Events(emitted, "game-over") :
        /\ emitted[i].newHighScore <=> emitted[i].score > PreviousBest
        /\ emitted[i].highScore = Max(PreviousBest, emitted[i].score)

\* C16: a key that goes down between ticks is reported by pressed() to the
\* first tick run after it and to no later tick, when the callback runs
\* several ticks and when a callback in between runs none; a repeated
\* key-down of a held key adds no edge.
C16_EdgeSeenOnce ==
    /\ probe.justPressed = probe.fresh
    /\ probe.ticks # <<>> =>
         /\ probe.ticks[1] = probe.fresh0
         /\ \A k \in 2..Len(probe.ticks) : probe.ticks[k] = {}

C16_CarriedEdgeSeenByFirstOfTicks ==
    /\ Len(probe.ticks) >= 2
    /\ probe.ticks[1] # {}
    /\ probe.carried
    /\ probe.repeated0 \ probe.ticks[1] # {}

\* C17: a frame callback adds min(0.1 s, time since the last callback) to the
\* accumulator, nothing on the first callback, runs floor(accumulator / slice)
\* ticks, at most 12, and leaves 0 <= accumulator < slice.
C17_FrameContract ==
    probe.frames >= 1 =>
        /\ probe.accum + FixedDt * Len(probe.ticks)
             = probe.accum0 + Min(MaxFrameDt, probe.elapsed)
        /\ Len(probe.ticks) = (probe.accum0 + Min(MaxFrameDt, probe.elapsed)) \div FixedDt
        /\ Len(probe.ticks) <= 12
        /\ probe.frames = 1 => probe.ticks = <<>>
        /\ 0 <= probe.accum /\ probe.accum < FixedDt

\* The squared distance between the centres of two circles.
SquaredDistance(a, b) == (a.x - b.x) * (a.x - b.x) + (a.y - b.y) * (a.y - b.y)

\* C18: circleHit(a, b) = circleHit(b, a), and circleHit(a, b) is true
\* exactly when the squared distance between the centres is <= the squared
\* sum of the radii, so circles that just touch overlap.
C18_OverlapTest ==
    probe.tested =>
        /\ probe.ab = probe.ba
        /\ probe.ab <=> SquaredDistance(probe.a, probe.b)
                          <= Px(probe.a.r + probe.b.r) * Px(probe.a.r + probe.b.r)

C18_TouchingOffAxis ==
    /\ probe.tested
    /\ probe.ab
    /\ probe.a.x # probe.b.x /\ probe.a.y # probe.b.y /\ probe.a.r # probe.b.r
    /\ SquaredDistance(probe.a, probe.b)
         = Px(probe.a.r + probe.b.r) * Px(probe.a.r + probe.b.r)

\* A record loadHighScore takes a number from.
ValidRecord(rec) ==
    \/ rec.t = "number"
    \/ rec.t = "object" /\ rec.value.t = "number"
    \/ rec.t = "object" /\ rec.value.t = "undefined" /\ rec.score.t = "number"

\* C19: loadHighScore resolves, to a finite number or to null, and to what
\* the localStorage fallback holds when IndexedDB is absent, does not open,
\* does not read or holds no valid record; saveHighScore resolves; after a
\* load that resolved to null the Game's high score is the 0 of boot.
C19_StorageNeverRejects ==
    /\ probe.call = "load" =>
         /\ probe.last.settled = "resolved"
         /\ probe.last.v.t \in {"number", "null"}
         /\ (probe.env.idb # "ok" \/ probe.env.read # "ok" \/ ~ValidRecord(probe.env.record))
              => probe.last.v = readFallback(probe.env)
         /\ probe.last.v.t = "null" =>
              highScore = 0 /\ state.highScore = 0 /\ lastPersistedHighScore = 0
    /\ probe.call = "save" => probe.last.settled = "resolved"

C19_StartedAfterEmptyLoad ==
    /\ probe.call = "load"
    /\ probe.env.idb = "error"
    /\ probe.env.ls = "throws"
    /\ probe.last = Resolved(Null)
    /\ state.mode = "PLAY"
    /\ highScore = 0

\* C20: a hazard the ship collides with while its invulnerability is <= 0 is
\* gone from the collection after the tick, whether a shield absorbed the hit
\* or the hit cost a life.
C20_HazardDestroyed ==
    \A i \in 1..Len(damage) :
        (damage[i].by = "hazard" /\ damage[i].invuln0 <= 0)
            => Copies(state.asteroids, damage[i].hazard[1]) = damage[i].copies0 - 1

\* C20, amended: a hazard the ship collides with while its invulnerability is
\* <= 0 is gone from the collection after the tick when a shield absorbed the
\* hit, and is still in the collection when the hit cost a life.
C20_HazardDestroyedWhenShielded ==
    \A i \in 1..Len(damage) :
        (damage[i].by = "hazard" /\ damage[i].invuln0 <= 0)
            => Copies(state.asteroids, damage[i].hazard[1])
                 = IF damage[i].shield0 > 0 THEN damage[i].copies0 - 1 ELSE damage[i].copies0

C20_ShieldedCollision ==
    \E i \in 1..Len(damage) :
        /\ damage[i].by = "hazard"
        /\ damage[i].invuln0 <= 0
        /\ damage[i].shield0 > 0
        /\ Copies(state.asteroids, damage[i].hazard[1]) = 0

\* C21: the call of damageShip that leaves lives <= 0 is the last thing its
\* tick does: no later call of damageShip follows it, and the state the tick
\* leaves is the state that call left, with the mode GAME_OVER (no pickup, no
\* cleanup, no wave progression).
C21_FatalHitEndsTick ==
    \A i \in 1..Len(damage) :
        damage[i].lives1 <= 0
            => /\ i = Len(damage)
               /\ state = damage[i].after
               /\ state.mode = "GAME_OVER"

C21_FatalHitLeavesDeadEntities ==
    /\ \E i \in 1..Len(damage) : damage[i].lives1 <= 0
    /\ \E j \in 1..Len(state.bullets) : state.bullets[j].dead
    /\ \E j \in 1..Len(state.asteroids) : state.asteroids[j].dead
    /\ state.powerups # <<>>

\* C22: a tick in MENU or GAME_OVER either accepts the command (Enter or
\* Space pressed in MENU, Enter pressed in GAME_OVER) and starts a run, or
\* leaves the state object, with every entity, timer, score, lives and wave,
\* and the high score as they were and emits nothing.
C22_IdleTick ==
    [][state.mode \in {"MENU", "GAME_OVER"} =>
         IF \/ state.mode = "MENU" /\ probe'.pressed \cap {"Enter", "Space"} # {}
            \/ state.mode = "GAME_OVER" /\ "Enter" \in probe'.pressed
         THEN state'.mode = "PLAY" /\ Events(emitted', "game-started") # {}
         ELSE /\ state' = state
              /\ highScore' = highScore
              /\ lastPersistedHighScore' = lastPersistedHighScore
              /\ emitted' = <<>>]_vars

C22_SpaceIgnoredWhenOver ==
    /\ state.mode = "GAME_OVER"
    /\ probe.pressed = {"Space"}
    /\ damage = <<>>
    /\ state.score > 0
    /\ state.asteroids # <<>>

\* C23: a PLAY tick in which the ship's invulnerability is > 0 after
\* Ship.update calls damageShip for nothing the ship overlaps: lives and
\* shield level do not go down, no hazard leaves the collection, and the mode
\* stays PLAY.
C23_InvulnerableShipUntouched ==
    [][(state.mode = "PLAY" /\ ShipUpdate(state.ship, Dt, FALSE).invuln > 0) =>
         /\ damage' = <<>>
         /\ state'.mode = "PLAY"
         /\ state'.lives >= state.lives
         /\ state'.ship.shieldLevel >= state.ship.shieldLevel
         /\ Len(state'.asteroids) = Len(state.asteroids)]_vars

C23_OverlapsWhileInvulnerable ==
    /\ probe # <<>>
    /\ probe.invuln > 0
    /\ probe.sa # 0 /\ probe.su /\ probe.sl # 0
    /\ state.ship.shieldLevel > 0
    /\ state.mode = "PLAY"

\* The hazard of the k-th onHit call as it was when hit, and what the calls
\* before the k-th appended.
HitHazard(k) == [probe.G.S.asteroids[probe.log[k].hazard] EXCEPT !.dead = FALSE]

RECURSIVE Appended(_)
Appended(k) == IF k = 0 THEN 0 ELSE Appended(k - 1) + Len(split(HitHazard(k)))

RECURSIVE Awarded(_)
Awarded(k) ==
    IF k = 0 THEN 0
    ELSE Awarded(k - 1)
         + (IF HitHazard(k).sizeIndex = 0 THEN SCORE_LARGE
            ELSE IF HitHazard(k).sizeIndex = 1 THEN SCORE_MED ELSE SCORE_SMALL)

DeadBefore(j, k) ==
    \/ j <= Len(probe.asteroids) /\ probe.asteroids[j].dead
    \/ \E l \in 1..(k - 1) : probe.log[l].hazard = j

Spent == { i \in 1..Len(probe.bullets) : ~probe.bullets[i].dead /\ probe.G.S.bullets[i].dead }

CraftHits ==
    IF probe.ufo = <<>> THEN 0
    ELSE IF probe.G.S.ufo = <<>> THEN probe.ufo[1].health
    ELSE probe.ufo[1].health - probe.G.S.ufo[1].health

\* C24: in one resolution of the bullet collisions no bullet and no hazard
\* is in two onHit calls; the hazard of a call is the first hazard of the
\* collection that is live and overlaps the bullet, and a live bullet that is
\* in no call overlaps no hazard left alive; each call flags both dead,
\* appends the hazard's split children and adds its tier score once; and a
\* bullet spent on a hazard is not spent on the craft as well.
C24_BulletDestroysFirstHazard ==
    probe.done =>
        /\ \A k, l \in 1..Len(probe.log) :
              k # l => /\ probe.log[k].bullet # probe.log[l].bullet
                       /\ probe.log[k].hazard # probe.log[l].hazard
        /\ \A k \in 1..Len(probe.log) :
              /\ ~probe.bullets[probe.log[k].bullet].dead
              /\ ~DeadBefore(probe.log[k].hazard, k)
              /\ circleHit(probe.bullets[probe.log[k].bullet], HitHazard(k))
              /\ \A j \in 1..(probe.log[k].hazard - 1) :
                    circleHit(probe.bullets[probe.log[k].bullet], probe.G.S.asteroids[j])
                        => DeadBefore(j, k)
              /\ probe.G.S.bullets[probe.log[k].bullet].dead
              /\ probe.G.S.asteroids[probe.log[k].hazard].dead
              /\ \A c \in 1..Len(split(HitHazard(k))) :
                    [probe.G.S.asteroids[Len(probe.asteroids) + Appended(k - 1) + c]
                        EXCEPT !.dead = FALSE] = split(HitHazard(k))[c]
        /\ \A i \in 1..Len(probe.bullets), j \in 1..Len(probe.asteroids) :
              (/\ ~probe.bullets[i].dead
               /\ \A k \in 1..Len(probe.log) : probe.log[k].bullet # i
               /\ circleHit(probe.bullets[i], probe.asteroids[j]))
                  => probe.G.S.asteroids[j].dead
        /\ Len(probe.G.S.asteroids) = Len(probe.asteroids) + Appended(Len(probe.log))
        /\ probe.G.S.score
             = Awarded(Len(probe.log)) + (IF probe.ufo # <<>> /\ probe.G.S.ufo = <<>>
                                          THEN UFO_SCORE_VALUE ELSE 0)
        /\ Cardinality(Spent) = Len(probe.log) + CraftHits

\* Two bullets inside the same large hazard: the first destroys it, the
\* second one of its children, and a third bullet reaches the craft.
C24_SecondBulletTakesChild ==
    /\ probe.done
    /\ \E k, l \in 1..Len(probe.log) :
          /\ probe.log[k].hazard <= Len(probe.asteroids)
          /\ probe.log[l].hazard > Len(probe.asteroids)
          /\ HitHazard(k).sizeIndex = 0
    /\ CraftHits = 1

\* The tick from the state object S on: pickup of the power-ups sp, cleanup.
RestOfTick(S, sp) ==
    tidy(handlePowerupCollisions(
             [S |-> S, highScore |-> S.highScore, lastPersisted |-> lastPersistedHighScore,
              out |-> <<>>, hits |-> <<>>], sp, 1)).S

\* The state a tick leaves when the rest of it ran from S on: what pickup and
\* cleanup left or, when they left no hazard, the next wave.
RanFrom(S) ==
    \E sp \in SUBSET LiveIdx(S.powerups) :
        IF waveCleared(RestOfTick(S, sp))
        THEN state.wave = S.wave + 1 /\ Len(state.asteroids) = WaveCount(state.wave)
        ELSE state = RestOfTick(S, sp)

\* C25: a call of damageShip that takes a life and leaves lives >= 1 leaves a
\* new ship at the centre of the play area, at rest, with weapon mode single,
\* shield level 0, speed level 0 and invulnerability RESPAWN_INVULN, and the
\* tick goes on from there: power-up pickup, cleanup and the wave check run.
C25_RespawnThenRestOfTick ==
    \A i \in 1..Len(damage) :
        damage[i].shield0 = 0 /\ damage[i].lives1 >= 1
            => /\ damage[i].after.ship = Ship(TRUE)
               /\ damage[i].after.ship.pos = "centre"
               /\ damage[i].after.ship.weaponMode = "single"
               /\ damage[i].after.ship.shieldLevel = 0
               /\ damage[i].after.ship.speedLevel = 0
               /\ damage[i].after.ship.invuln = RESPAWN_INVULN
               /\ RanFrom(damage[i].after)

C25_PickupAfterRespawn ==
    \E i \in 1..Len(damage) :
        /\ damage[i].shield0 = 0 /\ damage[i].lives1 >= 1
        /\ \E j \in 1..Len(damage[i].after.bullets) : damage[i].after.bullets[j].dead
        /\ state.wave = damage[i].after.wave
        /\ Len(state.powerups) < Len(damage[i].after.powerups)
        /\ state.ship = [Ship(TRUE) EXCEPT !.shieldLevel = 1]

\* A step that begins a wave, and a step within a wave.
WaveBegins == state'.mode = "PLAY" /\ (state.mode # "PLAY" \/ state'.wave # state.wave)
WaveGoesOn == state.mode = "PLAY" /\ state'.mode = "PLAY" /\ state'.wave = state.wave

\* The spawn timer runs out in the tick that starts with it at t.
RunsOut(t) == t # NULL /\ t - Dt <= 0

\* C26: a wave begins with no craft, none spawned and the spawn timer at
\* max(MIN, START - wave * DECREMENT_PER_WAVE); within a wave the timer
\* changes only in a tick that began with no craft alive and none spawned,
\* and then by dt, floored at 0; a craft appears exactly in the tick in which
\* the timer runs out, which sets the spawned flag for the rest of the wave;
\* and with the flag set no craft appears where there is none.  So a wave
\* sees at most one craft.
C26_OneCraftPerWave ==
    [][/\ WaveBegins =>
            /\ state'.ufo = <<>> /\ ~state'.ufoSpawnedThisWave
            /\ state'.ufoSpawnTimer
                   = Max(SPAWN_TIMER_MIN,
                         SPAWN_TIMER_START - state'.wave * SPAWN_TIMER_DECREMENT_PER_WAVE)
       /\ state.mode # "PLAY" /\ state'.mode # "PLAY" =>
            state'.ufoSpawnTimer = state.ufoSpawnTimer /\ state'.ufo = <<>>
       /\ WaveGoesOn =>
            /\ state'.ufoSpawnTimer # state.ufoSpawnTimer =>
                   /\ state.ufo = <<>> /\ ~state.ufoSpawnedThisWave
                   /\ state'.ufoSpawnTimer
                          = IF RunsOut(state.ufoSpawnTimer) THEN NULL
                            ELSE state.ufoSpawnTimer - Dt
            /\ (state.ufo = <<>> /\ state'.ufo # <<>>) =>
                   ~state.ufoSpawnedThisWave /\ RunsOut(state.ufoSpawnTimer)
            /\ RunsOut(state.ufoSpawnTimer) =>
                   state'.ufo # <<>> /\ state'.ufoSpawnedThisWave
            /\ state.ufoSpawnedThisWave =>
                   /\ state'.ufoSpawnedThisWave
                   /\ state.ufo = <<>> => state'.ufo = <<>>
            /\ state'.ufoSpawnedThisWave <=> state'.ufoSpawnTimer = NULL]_vars

C26_SecondWaveCraftDestroyed ==
    /\ state.mode = "PLAY" /\ state.wave = 1
    /\ state.ufoSpawnedThisWave /\ state.ufo = <<>>
    /\ emitted = <<>> /\ damage = <<>>

\* The hits the craft had received before the pass, the bullets the pass
\* spent on it, and the bullets that reach the second loop live and overlap
\* the craft, in collection order.
Received == CHOOSE n \in 0..(HITS_TO_DESTROY - 1) : probe.ufo = <<CraftAfter(n)>>
SpentOnCraft == Spent \ { probe.log[k].bullet : k \in 1..Len(probe.log) }
Reaching ==
    { i \in 1..Len(probe.bullets) :
        /\ \A k \in 1..Len(probe.log) : probe.log[k].bullet # i
        /\ circleHit(probe.bullets[i], probe.ufo[1]) }

\* C27: every hit on the craft spends one bullet and takes one hit point; the
\* craft is removed exactly when the hits it has received make
\* HITS_TO_DESTROY, SCORE_VALUE is added in that pass and in no other, and the
\* bullets that overlap the craft after the destroying one stay live.
C27_CraftTakesHitsToDestroy ==
    (probe.done /\ probe.ufo # <<>>) =>
        /\ probe.G.S.ufo = <<>>
              <=> Received + Cardinality(SpentOnCraft) = HITS_TO_DESTROY
        /\ probe.G.S.ufo # <<>> =>
              /\ probe.G.S.ufo[1].health
                    = HITS_TO_DESTROY - Received - Cardinality(SpentOnCraft)
              /\ probe.G.S.ufo[1].health > 0 /\ ~probe.G.S.ufo[1].dead
        /\ probe.G.S.score - Awarded(Len(probe.log))
              = IF probe.G.S.ufo = <<>> THEN UFO_SCORE_VALUE ELSE 0
        /\ \A i \in Reaching :
              i \in SpentOnCraft
                 <=> Received + Cardinality({ j \in Reaching : j < i }) < HITS_TO_DESTROY
        /\ SpentOnCraft \subseteq Reaching

C27_BulletAfterDestroyingOneStaysLive ==
    /\ probe.done /\ probe.ufo # <<>>
    /\ Received = 1
    /\ probe.G.S.ufo = <<>>
    /\ Cardinality(SpentOnCraft) = 2
    /\ Reaching \ SpentOnCraft # {}

\* The step that led here started a run (start or restart), or advanced the
\* wave.
RunStarted == Events(emitted, "game-started") # {}
WaveAdvanced == probe # <<>> /\ probe.op = "tick" /\ state.wave = probe.wave + 1

\* C28: right after a start, a restart or a wave advancement there is no
\* craft, no laser, the spawned flag is false and the spawn timer is the
\* delay of the wave now current; a craft that was alive is gone without its
\* score.
C28_CraftStateClearedForWave ==
    (RunStarted \/ WaveAdvanced) =>
        /\ state.ufo = <<>>
        /\ state.ufoBullets = <<>>
        /\ ~state.ufoSpawnedThisWave
        /\ state.ufoSpawnTimer
              = Max(SPAWN_TIMER_MIN,
                    SPAWN_TIMER_START - state.wave * SPAWN_TIMER_DECREMENT_PER_WAVE)
        /\ (probe # <<>> /\ probe.ufo # <<>> /\ probe.ufo[1].health > MaxHitsPerTick) =>
              state.score - probe.score < UFO_SCORE_VALUE

C28_LiveCraftDiscardedByWave ==
    /\ WaveAdvanced
    /\ probe.ufo # <<>> /\ probe.ufo[1].health > MaxHitsPerTick
    /\ probe.ufoBullets # <<>>
    /\ state.ufo = <<>>
    /\ state.score > probe.score

\* A laser after one update on a straight line, and the play area extended
\* by OFFSCREEN_MARGIN on every side.
Straight(l) ==
    [l EXCEPT !.x = @ + (l.vx * FixedDt * Grain) \div 600,
              !.y = @ + (l.vy * FixedDt * Grain) \div 600,
              !.lifetime = @ - FixedDt]
InMarginBox(l) ==
    /\ Px(-UFO_OFFSCREEN_MARGIN) <= l.x /\ l.x <= Px(W + UFO_OFFSCREEN_MARGIN)
    /\ Px(-UFO_OFFSCREEN_MARGIN) <= l.y /\ l.y <= Px(H + UFO_OFFSCREEN_MARGIN)
Outlives(l) == Straight(l).lifetime > 0 /\ InMarginBox(Straight(l))

\* C29: every laser a PLAY tick retains is where a straight line took it,
\* not wrapped, has lifetime > 0 and lies in the play area extended by
\* OFFSCREEN_MARGIN; and when every laser over the ship was flagged dead by
\* its own update, the tick does the ship no damage.
C29_LasersFlyStraightAndExpire ==
    probe.done =>
        /\ probe.G.S.mode = "PLAY"
        /\ \A k \in 1..Len(probe.G.S.ufoBullets) :
              /\ \E i \in 1..Len(probe.lasers) :
                    probe.G.S.ufoBullets[k] = Straight(probe.lasers[i])
              /\ probe.G.S.ufoBullets[k].lifetime > 0
              /\ InMarginBox(probe.G.S.ufoBullets[k])
        /\ (\A i \in 1..Len(probe.lasers) :
                circleHit(probe.ship, Straight(probe.lasers[i]))
                    => ~Outlives(probe.lasers[i]))
              => /\ probe.G.hits = <<>>
                 /\ probe.G.S.lives = LIVES
                 /\ probe.G.S.ship = probe.ship

C29_ExpiredLaserOverShip ==
    /\ probe.done
    /\ \E i \in 1..Len(probe.lasers) :
          /\ circleHit(probe.ship, Straight(probe.lasers[i]))
          /\ Straight(probe.lasers[i]).lifetime <= 0
    /\ probe.G.hits = <<>>
    /\ probe.G.S.ufoBullets = <<Straight(CentreLaser)>>


\* The level of the effect a power-up type raises, and its maximum.
EffectLevel(type, S) ==
    IF type = "tripleShot"
    THEN (CHOOSE w \in 1..Len(WeaponSteps) : WeaponSteps[w] = S.ship.weaponMode) - 1
    ELSE IF type = "extraLife" THEN S.lives
    ELSE IF type = "shield" THEN S.ship.shieldLevel
    ELSE S.ship.speedLevel
EffectMax(type) ==
    IF type = "tripleShot" THEN Len(WeaponSteps) - 1
    ELSE IF type = "extraLife" THEN MAX_LIVES
    ELSE IF type = "shield" THEN SHIELD_MAX_LEVEL
    ELSE SPEED_MAX_LEVEL

C31_LevelsInRange ==
    probe.op = "levels" =>
        /\ probe.G.S.ship.shieldLevel \in {0, 1, 2}
        /\ probe.G.S.ship.speedLevel \in 0..SPEED_MAX_LEVEL
        /\ probe.G.S.lives <= MAX_LIVES

C31_EveryLevelAtItsCap ==
    /\ probe.op = "levels"
    /\ probe.G.S.ship.shieldLevel = 2
    /\ probe.G.S.ship.speedLevel = SPEED_MAX_LEVEL
    /\ probe.G.S.lives = MAX_LIVES
    /\ probe.G.S.score = DuplicateScore["extraLife"] + DuplicateScore["speed"]
    /\ probe.G.highScore = probe.G.S.score + DuplicateScore["shield"]

\* C32: every score handed to saveHighScore exceeds the high score the step
\* found and every score saved or loaded before it, so the saved scores of a
\* Game are strictly increasing, whenever the load resolves.
C32_SavesStrictlyIncrease ==
    [][\A i \in Events(emitted', "save") :
          /\ emitted'[i].score > probe.top
          /\ emitted'[i].score > highScore
          /\ \A j \in Events(emitted', "save") :
                j < i => emitted'[j].score < emitted'[i].score]_vars

\* The bullets of the tick that had expired before the collision handlers ran.
Expired == { i \in 1..Len(probe.bullets) : probe.bullets[i].lifetime <= Dt }
NoneDead(seq) == \A i \in 1..Len(seq) : ~seq[i].dead

\* C33: after a PLAY tick that does not end the run no bullet, hazard,
\* power-up or laser left in its collection is flagged dead and the craft, if
\* still referenced, is not dead; within the tick no expired bullet destroys a
\* hazard, the craft loses health only to bullets that have not expired, and
\* the hazard that damages the ship is never one already flagged dead.
C33_DeadLeaveTheTick ==
    (probe.op = "sweep" /\ probe.done) =>
        /\ probe.G.S.mode = "PLAY" =>
              /\ NoneDead(probe.G.S.bullets) /\ NoneDead(probe.G.S.asteroids)
              /\ NoneDead(probe.G.S.powerups) /\ NoneDead(probe.G.S.ufoBullets)
              /\ NoneDead(probe.G.S.ufo)
        /\ \A k \in 1..Len(probe.log) : probe.log[k].bullet \notin Expired
        /\ OverCraft([bullets |-> probe.bullets, ufo |-> probe.ufo]) \subseteq Expired
              => probe.G.S.ufo = probe.ufo
        /\ \A k \in 1..Len(probe.G.hits) :
              probe.G.hits[k].by = "hazard" => ~probe.G.hits[k].hazard[1].dead

\* A tick in which an expired bullet lies over a hazard that survives, a live
\* bullet destroys a hazard the ship overlaps, and the ship is not damaged.
C33_ExpiredBulletAndDestroyedHazardPassedBy ==
    /\ probe.op = "sweep" /\ probe.done
    /\ probe.G.S.mode = "PLAY"
    /\ probe.G.hits = <<>>
    /\ probe.G.S.bullets = <<>>
    /\ \E j \in 1..Len(probe.asteroids) :
          /\ circleHit(probe.G.S.ship, probe.asteroids[j])
          /\ \E k \in 1..Len(probe.log) : probe.log[k].hazard = j
    /\ \E i \in Expired :
          /\ firstOverlap(probe.bullets[i], probe.asteroids) # 0
          /\ probe.asteroids[firstOverlap(probe.bullets[i], probe.asteroids)] \in
                { probe.G.S.asteroids[j] : j \in 1..Len(probe.G.S.asteroids) }

\* C34: no step of the Game lowers its high score, the step in which the
\* high-score load resolves included, and state.highScore equals the Game's
\* highScore in every state.
C34_HighScoreNeverDrops ==
    [][highScore' >= highScore /\ state'.highScore = highScore']_vars

\* C35: a PLAY tick calls damageShip at most once, and the call takes one
\* life or one shield level, never both; lives and shield level each fall by
\* at most 1 over the tick; when the ship, not invulnerable after
\* Ship.update, overlaps something, the one call is for the first of hazard,
\* craft and laser that it overlaps.
C35_OneHitPerTick ==
    [][state.mode = "PLAY" =>
         /\ Len(damage') <= 1
         /\ state'.lives >= state.lives - 1
         /\ state'.ship.shieldLevel >= state.ship.shieldLevel - 1
         /\ ~(state'.lives < state.lives /\ state'.ship.shieldLevel < state.ship.shieldLevel)
         /\ \A i \in 1..Len(damage') :
               (damage'[i].lives0 - damage'[i].lives1)
                 + (damage'[i].shield0 - damage'[i].shield1) = 1
         /\ (probe'.invuln <= 0 /\ (probe'.sa # 0 \/ probe'.su \/ probe'.sl # 0))
               => /\ Len(damage') = 1
                  /\ damage'[1].by = IF probe'.sa # 0 THEN "hazard"
                                     ELSE IF probe'.su THEN "ufo" ELSE "laser"]_vars

\* The ship, not invulnerable and with a shield level to lose, overlapped a
\* hazard, the craft and a laser in one tick and the hazard took the level.
C35_ThreeOverlapsOneHit ==
    /\ probe # <<>>
    /\ probe.invuln <= 0
    /\ probe.sa # 0 /\ probe.su /\ probe.sl # 0
    /\ Len(damage) = 1
    /\ damage[1].by = "hazard"
    /\ damage[1].shield0 = 1 /\ damage[1].shield1 = 0 /\ damage[1].lives1 = damage[1].lives0
    /\ state.mode = "PLAY"

C37_HazardsInPlay ==
    state.mode = "PLAY" => state.asteroids # <<>>

\* A tick in which the shield absorbed the last hazard of a wave: the cleanup
\* left no hazard and the progression block spawned the next wave.
C37_LastHazardAbsorbed ==
    /\ state.mode = "PLAY"
    /\ left = 0
    /\ state.wave = 1
    /\ Len(state.asteroids) = WaveCount(1)
    /\ Len(damage) = 1
    /\ damage[1].by = "hazard"
    /\ damage[1].shield1 < damage[1].shield0
    /\ Len(damage[1].after.asteroids) = 1

\* C38: the start button pressed in a mode other than MENU changes nothing of
\* the state, the high score or the last persisted high score and emits
\* nothing; a start command in MENU emits exactly one game-started event; and
\* a Game that is never reset or returned to the menu starts one run at most,
\* however many start commands it is given.
C38_StartOnlyFromMenu ==
    [][/\ (probe'.op = "button" /\ state.mode # "MENU")
            => /\ state' = state
               /\ highScore' = highScore
               /\ lastPersistedHighScore' = lastPersistedHighScore
               /\ emitted' = <<>>
       /\ (probe'.op \in {"button", "key"} /\ state.mode = "MENU")
            => /\ state'.mode = "PLAY"
               /\ Cardinality(Events(emitted', "game-started")) = 1
       /\ probe'.started <= 1]_vars

\* The button pressed on a run in progress that had scored and lost a life.
C38_ButtonDuringARun ==
    /\ probe.op = "button"
    /\ probe.started = 1
    /\ state.mode = "PLAY"
    /\ state.score > 0
    /\ state.lives < LIVES
    /\ emitted = <<>>

\* C39: in every state in PLAY every hazard of the collection has the speed
\* multiplier 1 + wave * SPEED_GROWTH_PER_WAVE of the current wave (in
\* tenths: SpeedMultiplier(wave)), the children of both split generations
\* included, so no hazard of an earlier wave is left when a wave begins.
C39_SpeedMultiplierOfWave ==
    state.mode = "PLAY" =>
        \A i \in 1..Len(state.asteroids) :
            state.asteroids[i].speedMultiplier = SpeedMultiplier(state.wave)

\* The second wave with children of both split generations in play.
C39_SecondWaveSplitTwice ==
    /\ state.mode = "PLAY"
    /\ state.wave = 1
    /\ \A t \in 1..(Len(SIZES) - 1) :
          \E i \in 1..Len(state.asteroids) :
              /\ state.asteroids[i].sizeIndex = t
              /\ state.asteroids[i].speedMultiplier = SpeedMultiplier(1)
    /\ SpeedMultiplier(1) # SpeedMultiplier(0)

\* The hazards a hazard of tier t gives rise to, itself included, and the
\* hazards and the hazard points still to come from a collection.
RECURSIVE Subtree(_)
Subtree(t) == IF t >= Len(SIZES) THEN 0 ELSE 1 + SPLIT_COUNT * Subtree(t + 1)

RECURSIVE HazardsToCome(_, _)
HazardsToCome(asteroids, i) ==
    IF i > Len(asteroids) THEN 0
    ELSE Subtree(asteroids[i].sizeIndex) + HazardsToCome(asteroids, i + 1)

RECURSIVE PointsToCome(_, _)
PointsToCome(asteroids, i) ==
    IF i > Len(asteroids) THEN 0
    ELSE TierScore(asteroids[i].sizeIndex) + PointsToCome(asteroids, i + 1)

\* C40: the hazards destroyed in a wave of n hazards, with all that the
\* hazards left can still give rise to, never exceed
\* n * (1 + SPLIT_COUNT + SPLIT_COUNT^2), and the points of the wave, with all
\* that the hazards left can still award, never exceed
\* n * (LARGE + SPLIT_COUNT * MED + SPLIT_COUNT^2 * SMALL); a tick adds to the
\* score exactly what the hazards it flagged dead are worth, each counted
\* once.
C40_WaveBounds ==
    (probe.op = "tally" /\ state.mode # "MENU") =>
        /\ Subtree(0) = 1 + SPLIT_COUNT + SPLIT_COUNT * SPLIT_COUNT
        /\ TierScore(0) = SCORE_LARGE + SPLIT_COUNT * SCORE_MED
                            + SPLIT_COUNT * SPLIT_COUNT * SCORE_SMALL
        /\ probe.destroyed <= WaveCount(probe.wave) * Subtree(0)
        /\ probe.points <= WaveCount(probe.wave) * TierScore(0)
        /\ probe.gain = probe.worth
        /\ (~probe.cleared /\ state.mode = "PLAY") =>
              /\ state.wave = probe.wave
              /\ probe.destroyed + HazardsToCome(state.asteroids, 1)
                    <= WaveCount(probe.wave) * Subtree(0)
              /\ probe.points + PointsToCome(state.asteroids, 1)
                    <= WaveCount(probe.wave) * TierScore(0)

\* The first wave cleared by bullets alone: both bounds are met.
C40_WaveClearedInFull ==
    /\ probe.op = "tally" /\ probe.cleared
    /\ probe.wave = 0
    /\ probe.destroyed = WaveCount(0) * Subtree(0)
    /\ probe.points = WaveCount(0) * TierScore(0)
    /\ state.mode = "PLAY" /\ state.wave = 1

====
